---- MODULE Spec2Model ----
(***************************************************************************)
(* Work-directory resolution, completion tracking and legacy migration of  *)
(* the gallery crawler (main.py, utils.py, config.py, downloader.py).      *)
(*                                                                         *)
(* Strings are sequences of one-character tokens, so that splitting a      *)
(* folder name on its separator, truncating a title and sanitising a       *)
(* segment are computed the way the Python code computes them.  Characters *)
(* outside ASCII are written as tokens: "SEP" is U+4E28 (the folder-name   *)
(* separator), "FW/" is U+FF0F, and so on.                                 *)
(***************************************************************************)
EXTENDS Naturals, Integers, Sequences, FiniteSets, TLC

VARIABLES
    fs,        \* the download root: path -> directory listing (name -> file)
    dryRun,    \* config.RENAME_DRY_RUN
    clock,     \* datetime.now(), one tick per processing pass
    pc,        \* position inside process_item
    cur,       \* locals of the running process_item call, and what it did
    listed,    \* the list entry this run's passes process
    lastCalls, \* direct calls of rename_old_dir_to_new (SpecMigrate only)
    probe      \* the last direct call of a helper function, with its result

vars == <<fs, dryRun, clock, pc, cur, listed, lastCalls, probe>>

-----------------------------------------------------------------------------
(* Bounds of the model *)

MaxPasses == 2
MaxMissing == 2
MaxCalls == 2

-----------------------------------------------------------------------------
(* Generic helpers *)

\* Python None, for a string and for a path
NoneStr == <<"PyNone">>
NoPath == <<>>

MinOf(S) == CHOOSE x \in S : \A y \in S : x <= y

RECURSIVE Perms(_)
Perms(S) ==
    IF S = {} THEN {<<>>}
    ELSE UNION {{<<x>> \o p : p \in Perms(S \ {x})} : x \in S}

\* Python s[:n]
Take(s, n) == SubSeq(s, 1, IF n < Len(s) THEN n ELSE Len(s))

\* Python s.endswith(suf)
EndsWith(s, suf) ==
    /\ Len(suf) <= Len(s)
    /\ SubSeq(s, Len(s) - Len(suf) + 1, Len(s)) = suf

\* the pieces of s between the positions in P, in order: one more piece
\* than there are positions, empty pieces included
SplitAt(s, P) ==
    LET n == Cardinality(P)
        Cut(k) == IF k = 0 THEN 0
                  ELSE IF k = n + 1 THEN Len(s) + 1
                  ELSE CHOOSE i \in P : Cardinality({j \in P : j < i}) = k - 1
    IN [k \in 1..(n + 1) |-> SubSeq(s, Cut(k - 1) + 1, Cut(k) - 1)]

\* Python s.split(c) for a one-character separator c
Split(s, c) == SplitAt(s, {i \in 1..Len(s) : s[i] = c})

RECURSIVE JoinWith(_, _)
JoinWith(parts, c) ==
    IF Len(parts) = 0 THEN <<>>
    ELSE IF Len(parts) = 1 THEN parts[1]
    ELSE parts[1] \o <<c>> \o JoinWith(Tail(parts), c)

Digits == <<"0", "1", "2", "3", "4", "5", "6", "7", "8", "9">>

RECURSIVE IntToStr(_)
\* Python str(n) / f"{n}" for n >= 0
IntToStr(n) ==
    IF n < 10 THEN <<Digits[n + 1]>>
    ELSE IntToStr(n \div 10) \o <<Digits[(n % 10) + 1]>>

\* Python str.lower() on the letters the model uses
LowerChar(ch) ==
    CASE ch = "P" -> "p"
      [] ch = "A" -> "a"
      [] ch = "R" -> "r"
      [] ch = "T" -> "t"
      [] OTHER -> ch

Lower(s) == [i \in 1..Len(s) |-> LowerChar(s[i])]

-----------------------------------------------------------------------------
(* config.py *)

SEP == "SEP"

TitleLimit == 100

WhitespaceChars == {" ", "TAB", "NL"}

\* str.isprintable(): the ASCII space is printable, other whitespace and
\* control characters are not
NonPrintableChars == {"TAB", "NL", "NUL"}

ReplaceChar(ch) ==
    CASE ch = "\\" -> "RSOL"
      [] ch = "/" -> "FW/"
      [] ch = ":" -> "FW:"
      [] ch = "*" -> "FW*"
      [] ch = "?" -> "FW?"
      [] ch = "DQUOTE" -> "FWDQUOTE"
      [] ch = "<" -> "FW<"
      [] ch = ">" -> "FW>"
      [] ch = "|" -> "FW|"
      [] OTHER -> ch

RECURSIVE LStrip(_)
LStrip(s) ==
    IF Len(s) > 0 /\ s[1] \in WhitespaceChars THEN LStrip(Tail(s)) ELSE s

RECURSIVE RStrip(_)
RStrip(s) ==
    IF Len(s) > 0 /\ s[Len(s)] \in WhitespaceChars
    THEN RStrip(SubSeq(s, 1, Len(s) - 1))
    ELSE s

Strip(s) == RStrip(LStrip(s))

\* Python s.split(): split on runs of whitespace, no empty pieces
SplitWs(s) ==
    SelectSeq(SplitAt(s, {i \in 1..Len(s) : s[i] \in WhitespaceChars}),
              LAMBDA piece : piece # <<>>)

\* the fallback make_valid_filename of config.py
make_valid_filename(s) ==
    IF s = NoneStr THEN <<>>
    ELSE LET stripped == Strip(s)
             replaced == [i \in 1..Len(stripped) |-> ReplaceChar(stripped[i])]
             printable == SelectSeq(replaced, LAMBDA ch : ch \notin NonPrintableChars)
             joined == JoinWith(SplitWs(printable), "_")
         IN IF joined = <<>> THEN <<"_">> ELSE joined

\* hashlib.md5(slug).hexdigest()[:8], tabulated for the slugs of the model
slug_to_hash(slug) ==
    CASE slug = "work-a" -> <<"4", "8", "e", "5", "7", "1", "5", "7">>
      [] slug = "work-b" -> <<"4", "0", "8", "e", "9", "8", "d", "c">>
      [] slug = "work-v" -> <<"8", "1", "e", "3", "7", "8", "3", "e">>
      [] slug = "work-n" -> <<"5", "b", "d", "0", "8", "5", "6", "5">>
      [] slug = "ai-photo-22-ai-generated-2" -> <<"d", "c", "5", "a", "e", "b", "5", "7">>
      [] slug = "" -> <<"d", "4", "1", "d", "8", "c", "d", "9">>

\* a folder name whose hash also depends on the title
make_folder_name_hashing_title(date, title, total, slug, is_special) ==
    LET title1 == IF title = NoneStr THEN <<>> ELSE title
        date1 == IF date = NoneStr THEN <<>> ELSE date
        slug1 == IF slug = "PyNone" THEN "" ELSE slug
        title_truncated_clean == make_valid_filename(Take(title1, TitleLimit))
        date_clean == make_valid_filename(date1)
        hash8 == slug_to_hash(IF title1 = <<>> THEN "" ELSE slug1)
        folder ==
            IF is_special
            THEN hash8 \o <<SEP>> \o title_truncated_clean \o <<SEP>> \o IntToStr(total)
            ELSE date_clean \o <<SEP>> \o title_truncated_clean \o <<SEP>>
                 \o IntToStr(total) \o <<SEP>> \o hash8
    IN [folder |-> folder, title_truncated |-> title_truncated_clean, hash8 |-> hash8]

make_folder_name(date, title, total, slug, is_special) ==
    LET title1 == IF title = NoneStr THEN <<>> ELSE title
        date1 == IF date = NoneStr THEN <<>> ELSE date
        slug1 == IF slug = "PyNone" THEN "" ELSE slug
        title_truncated == Take(title1, TitleLimit)
        title_truncated_clean == make_valid_filename(title_truncated)
        date_clean == make_valid_filename(date1)
        hash8 == slug_to_hash(slug1)
        folder ==
            IF is_special
            THEN hash8 \o <<SEP>> \o title_truncated_clean \o <<SEP>> \o IntToStr(total)
            ELSE date_clean \o <<SEP>> \o title_truncated_clean \o <<SEP>>
                 \o IntToStr(total) \o <<SEP>> \o hash8
    IN [folder |-> folder, title_truncated |-> title_truncated_clean, hash8 |-> hash8]

\* DOWNLOAD_SUBDIR_NAME for LIST_MODE = "search_keyword"; BASE_DOWNLOAD_DIR is
\* ROOT_DOWNLOAD_DIR/BaseSub.  OtherSub is the directory of another list mode.
BaseSub == "kw_stripping"
OtherSub == "tag_anal"
Subs == {BaseSub, OtherSub}

\* os.path.join(ROOT_DOWNLOAD_DIR, sub, name)
Path(sub, name) == <<sub, name>>

MISSING_LINKS_FILENAME == <<"U6587", "U4EF6", "U4E0D", "U5B58", "U5728", "U7684",
                            "U94FE", "U63A5", ".", "t", "x", "t">>
META_JSON == <<"m", "e", "t", "a", ".", "j", "s", "o", "n">>
DS_STORE == <<".", "D", "S", "_", "S", "t", "o", "r", "e">>

-----------------------------------------------------------------------------
(* The filesystem below ROOT_DOWNLOAD_DIR.  fs maps the path of every work *)
(* directory to its listing; a listing maps a file name to the file.  A    *)
(* file is a regular file or not (isfile) and has a size; the dead-link    *)
(* record also has its text lines, and meta.json its "hash" and            *)
(* "download_time" fields.                                                 *)

NoHash == <<>>

\* one line of the dead-link record: a URL
UrlLine == <<"u">>

MediaFile == [isfile |-> TRUE, size |-> 1, lines |-> <<>>, hash |-> NoHash, time |-> 0]
EmptyFile == [isfile |-> TRUE, size |-> 0, lines |-> <<>>, hash |-> NoHash, time |-> 0]
LinksFile(n) ==
    [isfile |-> TRUE, size |-> 1, lines |-> [i \in 1..n |-> UrlLine],
     hash |-> NoHash, time |-> 0]
MetaFile(h, t) == [isfile |-> TRUE, size |-> 1, lines |-> <<>>, hash |-> h, time |-> t]

EmptyDir == [n \in {} |-> EmptyFile]

IsDir(f, path) == path \in DOMAIN f

Listing(f, path) == IF IsDir(f, path) THEN f[path] ELSE EmptyDir

\* the listing with one file written (created or overwritten)
WithFile(dir, name, file) ==
    [n \in DOMAIN dir \cup {name} |-> IF n = name THEN file ELSE dir[n]]

\* f with the directory at path set to dir (os.makedirs + writes)
WithDir(f, path, dir) ==
    [p \in DOMAIN f \cup {path} |-> IF p = path THEN dir ELSE f[p]]

\* the dead-link record of the listing with one more URL line: created when
\* it is not there, appended to when it is
WithLine(dir) ==
    IF MISSING_LINKS_FILENAME \in DOMAIN dir /\ dir[MISSING_LINKS_FILENAME].isfile
    THEN [dir[MISSING_LINKS_FILENAME] EXCEPT !.size = 1, !.lines = Append(@, UrlLine)]
    ELSE LinksFile(1)

\* utils.file_exists_and_nonempty
file_exists_and_nonempty(f, path, name) ==
    /\ IsDir(f, path)
    /\ name \in DOMAIN f[path]
    /\ f[path][name].isfile
    /\ f[path][name].size > 0

\* utils.count_missing_links
count_missing_links(f, save_dir) ==
    IF ~IsDir(f, save_dir) \/ MISSING_LINKS_FILENAME \notin DOMAIN f[save_dir]
    THEN 0
    ELSE LET file == f[save_dir][MISSING_LINKS_FILENAME]
         IN IF ~file.isfile THEN 0
            ELSE Cardinality({ i \in 1..Len(file.lines) : Strip(file.lines[i]) # <<>> })

excluded_names == {MISSING_LINKS_FILENAME, META_JSON, DS_STORE}

excluded_suffixes ==
    { <<".", "p", "a", "r", "t">>,
      <<".", "t", "m", "p">>,
      <<".", "p", "a", "r", "t", "i", "a", "l">>,
      <<".", "d", "o", "w", "n", "l", "o", "a", "d">> }

\* a count that takes meta.json for a finished file
count_finished_files_with_meta(f, save_dir) ==
    IF ~IsDir(f, save_dir) THEN 0
    ELSE Cardinality({ name \in DOMAIN f[save_dir] :
            /\ name \notin {MISSING_LINKS_FILENAME, DS_STORE}
            /\ name[1] # "."
            /\ ~(\E suf \in excluded_suffixes : EndsWith(Lower(name), suf))
            /\ f[save_dir][name].isfile
            /\ f[save_dir][name].size > 0 })

\* a count that takes empty files for finished files
count_finished_files_any_size(f, save_dir) ==
    IF ~IsDir(f, save_dir) THEN 0
    ELSE Cardinality({ name \in DOMAIN f[save_dir] :
            /\ name \notin excluded_names
            /\ name[1] # "."
            /\ ~(\E suf \in excluded_suffixes : EndsWith(Lower(name), suf))
            /\ f[save_dir][name].isfile })

\* utils.count_finished_files
count_finished_files(f, save_dir) ==
    IF ~IsDir(f, save_dir) THEN 0
    ELSE Cardinality({ name \in DOMAIN f[save_dir] :
            /\ name \notin excluded_names
            /\ name[1] # "."
            /\ ~(\E suf \in excluded_suffixes : EndsWith(Lower(name), suf))
            /\ f[save_dir][name].isfile
            /\ f[save_dir][name].size > 0 })

\* finished files + dead links, as process_item adds them up three times
CompletionCount(f, save_dir) ==
    count_finished_files(f, save_dir) + count_missing_links(f, save_dir)

\* the orders in which the two nested os.listdir loops of the lookup
\* functions can visit the work directories: os.listdir gives each
\* directory's entries in arbitrary order
RECURSIVE Walks(_, _)
Walks(f, subOrder) ==
    IF subOrder = <<>> THEN {<<>>}
    ELSE { a \o b : a \in Perms({p \in DOMAIN f : p[1] = Head(subOrder)}),
                    b \in Walks(f, Tail(subOrder)) }

ScanOrders(f) == UNION { Walks(f, so) : so \in Perms(Subs) }

\* the first path of the scan that satisfies the test, decided per path by
\* the set Matching
FirstIn(order, Matching) ==
    LET idx == { i \in 1..Len(order) : order[i] \in Matching }
    IN IF idx = {} THEN NoPath ELSE order[MinOf(idx)]

\* a lookup that finds directories of exactly the given name only
find_existing_work_dir_by_name(f, order, folder_name) ==
    FirstIn(order, { p \in DOMAIN f : p[2] = folder_name })

\* utils.find_existing_work_dir, for one order of the directory scan
find_existing_work_dir(f, order, folder_name) ==
    LET parts == Split(folder_name, SEP)
    IN IF Len(parts) = 4 \/ Len(parts) = 3
       THEN LET date_new == IF Len(parts) = 4 THEN parts[1] ELSE <<>>
                title_new == parts[2]
                total_new == parts[3]
                hash_new == IF Len(parts) = 4 THEN parts[4] ELSE parts[1]
                Hit(p) ==
                    LET parts_old == Split(p[2], SEP)
                    IN \/ /\ Len(parts_old) = 3
                          /\ parts_old[1] = date_new
                          /\ Take(parts_old[2], TitleLimit) = title_new
                          /\ parts_old[3] = total_new
                       \/ /\ Len(parts_old) = 4
                          /\ p[2] = folder_name
                       \/ /\ Len(parts_old) = 3
                          /\ parts_old[1] = hash_new
                          /\ parts_old[2] = title_new
                          /\ parts_old[3] = total_new
            IN FirstIn(order, { p \in DOMAIN f : Hit(p) })
       ELSE FirstIn(order, { p \in DOMAIN f : p[2] = folder_name })

\* utils.match_old_format_dir, for one order of the directory scan
match_old_format_dir(f, order, folder_name) ==
    LET parts == Split(folder_name, SEP)
    IN IF Len(parts) = 4 \/ Len(parts) = 3
       THEN LET date_new == IF Len(parts) = 4 THEN parts[1] ELSE <<>>
                title_new == parts[2]
                total_new == parts[3]
                Hit(p) ==
                    LET parts_old == Split(p[2], SEP)
                    IN /\ Len(parts_old) = 3
                       /\ parts_old[1] = date_new
                       /\ Take(parts_old[2], TitleLimit) = title_new
                       /\ parts_old[3] = total_new
            IN FirstIn(order, { p \in DOMAIN f : Hit(p) })
       ELSE NoPath

\* a metadata writer that creates the directory and writes nothing
write_meta_json_nothing(f, save_dir, hash8, now) ==
    WithDir(f, save_dir, Listing(f, save_dir))

\* utils.write_meta_json: os.makedirs(save_dir) and meta.json (over)written
write_meta_json(f, save_dir, hash8, now) ==
    WithDir(f, save_dir, WithFile(Listing(f, save_dir), META_JSON, MetaFile(hash8, now)))

\* what os.rename / shutil.move can do: "rename" succeeds at once, "move"
\* is os.rename raising OSError and shutil.move succeeding, "fail" is both
\* raising
RenameOutcomes == {"rename", "move", "fail"}

\* a move that leaves the dead-link record behind
MovedWithoutDeadLinks(f, old_dir, new_dir) ==
    [p \in (DOMAIN f \ {old_dir}) \cup {new_dir} |->
        IF p = new_dir
        THEN [n \in DOMAIN f[old_dir] \ {MISSING_LINKS_FILENAME} |-> f[old_dir][n]]
        ELSE f[p]]

\* the directory tree after old_dir has been moved to new_dir
Moved(f, old_dir, new_dir) ==
    [p \in (DOMAIN f \ {old_dir}) \cup {new_dir} |->
        IF p = new_dir THEN f[old_dir] ELSE f[p]]

\* lines 386-410 of utils.py: meta.json of the moved directory gets the hash
\* of a 4-segment folder name and a new download_time
UpdateMetaAfterMove(f, new_dir, new_folder_name, now) ==
    IF META_JSON \notin DOMAIN f[new_dir] THEN f
    ELSE LET parts == Split(new_folder_name, SEP)
             hash8 == IF Len(parts) >= 4 THEN parts[Len(parts)] ELSE NoHash
         IN IF hash8 # NoHash
            THEN WithDir(f, new_dir, WithFile(f[new_dir], META_JSON, MetaFile(hash8, now)))
            ELSE f

\* a migration that moves onto an existing destination
rename_overwriting(f, old_dir, new_parent_dir, new_folder_name, dry_run, outcome, now) ==
    LET new_dir == Path(new_parent_dir, new_folder_name)
    IN IF ~IsDir(f, old_dir) THEN [fs |-> f, ret |-> NoPath]
       ELSE IF dry_run THEN [fs |-> f, ret |-> new_dir]
       ELSE IF outcome = "fail" THEN [fs |-> f, ret |-> NoPath]
       ELSE [fs |-> UpdateMetaAfterMove(Moved(f, old_dir, new_dir), new_dir,
                                        new_folder_name, now),
             ret |-> new_dir]

\* a migration that ignores dry_run
rename_ignoring_dry_run(f, old_dir, new_parent_dir, new_folder_name, dry_run, outcome, now) ==
    LET new_dir == Path(new_parent_dir, new_folder_name)
    IN IF ~IsDir(f, old_dir) THEN [fs |-> f, ret |-> NoPath]
       ELSE IF IsDir(f, new_dir) THEN [fs |-> f, ret |-> new_dir]
       ELSE IF outcome = "fail" THEN [fs |-> f, ret |-> NoPath]
       ELSE [fs |-> UpdateMetaAfterMove(Moved(f, old_dir, new_dir), new_dir,
                                        new_folder_name, now),
             ret |-> new_dir]

\* utils.rename_old_dir_to_new: the tree afterwards and the value returned
rename_old_dir_to_new(f, old_dir, new_parent_dir, new_folder_name, dry_run, outcome, now) ==
    LET new_dir == Path(new_parent_dir, new_folder_name)
    IN IF ~IsDir(f, old_dir) THEN [fs |-> f, ret |-> NoPath]
       ELSE IF IsDir(f, new_dir) THEN [fs |-> f, ret |-> new_dir]
       ELSE IF dry_run THEN [fs |-> f, ret |-> new_dir]
       ELSE IF outcome = "fail" THEN [fs |-> f, ret |-> NoPath]
       ELSE [fs |-> UpdateMetaAfterMove(Moved(f, old_dir, new_dir), new_dir,
                                        new_folder_name, now),
             ret |-> new_dir]

-----------------------------------------------------------------------------
(* The site: list items and what the story viewer shows for each *)

NoUrl == <<>>
NoVideo == [is_mp4 |-> FALSE, id |-> <<>>, mp4_name |-> <<>>]

F1 == <<"1", ".", "j", "p", "g">>
F2 == <<"2", ".", "j", "p", "g">>
VMP4 == <<"v", ".", "m", "p", "4">>

\* a dated item with two images, an undated item (special list) with one
\* image, a dated video item served as a playlist, an entry without link,
\* and a dated item whose viewer announces two files but shows no image
ItemA == [detail_url |-> <<"image", "work-a">>, title |-> <<"a">>, date |-> <<"d">>]
ItemB == [detail_url |-> <<"image", "work-b">>, title |-> <<"b">>, date |-> <<>>]
ItemV == [detail_url |-> <<"video", "work-v">>, title |-> <<"v">>, date |-> <<"d">>]
ItemE == [detail_url |-> NoUrl, title |-> <<"e">>, date |-> <<"d">>]
ItemN == [detail_url |-> <<"image", "work-n">>, title |-> <<"n">>, date |-> <<"d">>]

Items == {ItemA, ItemB, ItemV, ItemE, ItemN}

\* parser_story.extract_slug: the last segment of the URL path
extract_slug(detail_url) ==
    IF Len(detail_url) = 0 THEN "" ELSE detail_url[Len(detail_url)]

\* parser_story.parse_story_viewer: (img_infos, video_info, total); a failed
\* request gives ([], None, 0)
parse_story_viewer(item, viewer_ok) ==
    IF ~viewer_ok THEN [imgs |-> <<>>, video |-> NoVideo, total |-> 0]
    ELSE CASE item = ItemA -> [imgs |-> <<F1, F2>>, video |-> NoVideo, total |-> 2]
           [] item = ItemB -> [imgs |-> <<F1>>, video |-> NoVideo, total |-> 1]
           [] item = ItemV ->
                [imgs |-> <<>>,
                 video |-> [is_mp4 |-> FALSE, id |-> <<"v">>, mp4_name |-> VMP4],
                 total |-> 1]
           [] item = ItemN -> [imgs |-> <<>>, video |-> NoVideo, total |-> 2]
           [] OTHER -> [imgs |-> <<>>, video |-> NoVideo, total |-> 0]

-----------------------------------------------------------------------------
(* downloader.py *)

\* what the download collaborator (mymodule.download_file) can do with one
\* URL: write the file, record a dead link, or fail
DownloadOutcomes == {"ok", "notfound", "fail"}

\* utils.safe_download
safe_download(f, filename, save_dir, outcome) ==
    CASE outcome = "ok" ->
            WithDir(f, save_dir, WithFile(Listing(f, save_dir), filename, MediaFile))
      [] outcome = "notfound" ->
            WithDir(f, save_dir,
                    WithFile(Listing(f, save_dir), MISSING_LINKS_FILENAME,
                             WithLine(Listing(f, save_dir))))
      [] OTHER -> f

RECURSIVE DownloadImagesFrom(_, _, _, _, _)
DownloadImagesFrom(f, img_infos, i, save_dir, outcomes) ==
    IF i > Len(img_infos) THEN f
    ELSE IF file_exists_and_nonempty(f, save_dir, img_infos[i])
         THEN DownloadImagesFrom(f, img_infos, i + 1, save_dir, outcomes)
         ELSE DownloadImagesFrom(safe_download(f, img_infos[i], save_dir, outcomes[i]),
                                 img_infos, i + 1, save_dir, outcomes)

\* downloader.download_images
download_images(f, img_infos, save_dir, outcomes) ==
    DownloadImagesFrom(WithDir(f, save_dir, Listing(f, save_dir)),
                       img_infos, 1, save_dir, outcomes)

\* downloader.convert_m3u8_to_mp4: ffmpeg writes the mp4 or fails
convert_m3u8_to_mp4(f, save_dir, mp4_name, converted) ==
    IF converted
    THEN WithDir(f, save_dir, WithFile(Listing(f, save_dir), mp4_name, MediaFile))
    ELSE f

\* downloader.download_video
download_video(f, video_info, save_dir, outcome, converted) ==
    LET f0 == WithDir(f, save_dir, Listing(f, save_dir))
        m3u8_name == video_info.id \o <<".", "m", "3", "u", "8">>
    IN IF file_exists_and_nonempty(f0, save_dir, video_info.mp4_name) THEN f0
       ELSE IF video_info.is_mp4
            THEN safe_download(f0, video_info.mp4_name, save_dir, outcome)
            ELSE LET f1 == IF ~file_exists_and_nonempty(f0, save_dir, m3u8_name)
                           THEN safe_download(f0, m3u8_name, save_dir, outcome)
                           ELSE f0
                 IN IF file_exists_and_nonempty(f1, save_dir, m3u8_name)
                    THEN convert_m3u8_to_mp4(f1, save_dir, video_info.mp4_name, converted)
                    ELSE f1

-----------------------------------------------------------------------------
(* main.process_item, in the steps a pass goes through.  cur holds the     *)
(* locals of the call (item, expected_total, folder_name, save_dir, ...)   *)
(* and a record of what the pass did: the tree it started from (fs0), the  *)
(* step-7 decision, the download calls, the migration calls and where      *)
(* meta.json was written.                                                  *)

NoItem == [detail_url |-> NoUrl, title |-> <<>>, date |-> <<>>]

EmptyCur ==
    [ item |-> NoItem, story |-> parse_story_viewer(NoItem, FALSE),
      expected_total |-> 0, folder_name |-> <<>>, hash8 |-> NoHash,
      existing_dir |-> NoPath, old_dir |-> NoPath, save_dir |-> NoPath,
      chosen_dir |-> NoPath, fs0 |-> <<>>, skipped |-> "", decision |-> "",
      downloads |-> <<>>, renames |-> <<>>, meta_dir |-> NoPath ]

\* one call of rename_old_dir_to_new as the pass saw it
RenameCall(phase, f, old_dir, new_parent_dir, new_folder_name, dry, r) ==
    [ phase |-> phase, old_dir |-> old_dir,
      new_dir |-> Path(new_parent_dir, new_folder_name),
      dry_run |-> dry, ret |-> r.ret, before |-> f, after |-> r.fs ]

\* a completion test that lets a work one file short pass for complete
IsCompleteLax(finished_total, expected_total) == finished_total + 1 >= expected_total

\* a completion test that wants more than the expected total
IsCompleteStrict(finished_total, expected_total) == finished_total > expected_total

\* the completion test of lines 120, 150 and 184
IsComplete(finished_total, expected_total) == finished_total >= expected_total

\* a fresh directory placed outside the current mode's download directory
FreshDirElsewhere(folder_name) == Path(OtherSub, folder_name)

\* line 142 (and 134): os.path.join(BASE_DOWNLOAD_DIR, folder_name)
FreshDir(folder_name) == Path(BaseSub, folder_name)

\* lines 154-158: the name contains the separator and splits into 3 parts
IsThreePartName(base_name) ==
    /\ \E i \in 1..Len(base_name) : base_name[i] = SEP
    /\ Len(Split(base_name, SEP)) = 3

\* os.path.basename
BaseName(path) == path[2]

\* step 6, lines 104-143: choose save_dir
ChooseWorkDir(f, c, order, dry, outcome, now) ==
    LET existing_dir == find_existing_work_dir(f, order, c.folder_name)
    IN IF existing_dir # NoPath
       THEN [fs |-> f, pc |-> "check",
             cur |-> [c EXCEPT !.existing_dir = existing_dir,
                               !.save_dir = existing_dir,
                               !.chosen_dir = existing_dir]]
       ELSE LET old_dir == match_old_format_dir(f, order, c.folder_name)
            IN IF old_dir # NoPath
               THEN IF IsComplete(CompletionCount(f, old_dir), c.expected_total)
                    THEN LET r == rename_old_dir_to_new(f, old_dir, BaseSub, c.folder_name,
                                                        dry, outcome, now)
                             c1 == [c EXCEPT !.old_dir = old_dir,
                                        !.renames = Append(@, RenameCall("early", f, old_dir,
                                                         BaseSub, c.folder_name, dry, r))]
                         IN IF r.ret # NoPath
                            THEN [fs |-> r.fs, pc |-> "done",
                                  cur |-> [c1 EXCEPT !.save_dir = r.ret,
                                                     !.chosen_dir = old_dir,
                                                     !.decision = "skip"]]
                            ELSE [fs |-> r.fs, pc |-> "check",
                                  cur |-> [c1 EXCEPT !.save_dir = FreshDir(c.folder_name),
                                                     !.chosen_dir = FreshDir(c.folder_name)]]
                    ELSE [fs |-> f, pc |-> "check",
                          cur |-> [c EXCEPT !.old_dir = old_dir, !.save_dir = old_dir,
                                            !.chosen_dir = old_dir]]
               ELSE [fs |-> f, pc |-> "check",
                     cur |-> [c EXCEPT !.save_dir = FreshDir(c.folder_name),
                                       !.chosen_dir = FreshDir(c.folder_name)]]

\* an early return that leaves a metadata record behind
SkippedWithMeta(f, c, why) ==
    [fs |-> write_meta_json(f, FreshDir(c.item.title), NoHash, 0), pc |-> "done",
     cur |-> [c EXCEPT !.skipped = why]]

\* the early returns of lines 71-73, 79-81 and 88-90
Skipped(f, c, why) == [fs |-> f, pc |-> "done", cur |-> [c EXCEPT !.skipped = why]]

\* steps 1-6, lines 66-143
Resolve(f, item, story_found, viewer_ok, order, dry, outcome, now) ==
    LET c0 == [EmptyCur EXCEPT !.item = item, !.fs0 = f]
        Skip(why) == Skipped(f, c0, why)
    IN IF item.detail_url = NoUrl THEN Skip("no_detail_url")
       ELSE IF ~story_found THEN Skip("no_story_url")
       ELSE LET story == parse_story_viewer(item, viewer_ok)
                expected_total ==
                    IF story.total > 0 THEN story.total
                    ELSE Len(story.imgs) + (IF story.video # NoVideo THEN 1 ELSE 0)
            IN IF expected_total = 0 THEN Skip("zero_total")
               ELSE LET slug == extract_slug(item.detail_url)
                        made == make_folder_name(item.date, item.title, expected_total,
                                                 slug, item.date = <<>>)
                        c1 == [c0 EXCEPT !.story = story,
                                         !.expected_total = expected_total,
                                         !.folder_name = made.folder,
                                         !.hash8 = made.hash8]
                    IN ChooseWorkDir(f, c1, order, dry, outcome, now)

\* step 7, lines 145-169: skip a complete work, migrating a 3-part name
SkipCheck(f, c, dry, outcome, now) ==
    IF IsComplete(CompletionCount(f, c.save_dir), c.expected_total)
    THEN IF IsThreePartName(BaseName(c.save_dir))
         THEN LET r == rename_old_dir_to_new(f, c.save_dir, BaseSub, c.folder_name,
                                             dry, outcome, now)
              IN [fs |-> r.fs, pc |-> "done",
                  cur |-> [c EXCEPT !.decision = "skip",
                               !.renames = Append(@, RenameCall("skip", f, c.save_dir,
                                                BaseSub, c.folder_name, dry, r))]]
         ELSE [fs |-> f, pc |-> "done", cur |-> [c EXCEPT !.decision = "skip"]]
    ELSE [fs |-> f, pc |-> "download", cur |-> [c EXCEPT !.decision = "continue"]]

\* steps 8-9, lines 171-177
Download(f, c, outcomes, video_outcome, converted) ==
    LET f1 == IF Len(c.story.imgs) > 0
              THEN download_images(f, c.story.imgs, c.save_dir, outcomes)
              ELSE f
        f2 == IF c.story.video # NoVideo
              THEN download_video(f1, c.story.video, c.save_dir, video_outcome, converted)
              ELSE f1
        calls == (IF Len(c.story.imgs) > 0
                  THEN <<[fn |-> "download_images", dir |-> c.save_dir]>> ELSE <<>>)
                 \o (IF c.story.video # NoVideo
                     THEN <<[fn |-> "download_video", dir |-> c.save_dir]>> ELSE <<>>)
    IN [fs |-> f2, pc |-> "finalize", cur |-> [c EXCEPT !.downloads = calls]]

\* steps 10-11, lines 179-214: migrate a 3-part name once complete, then
\* write meta.json into save_dir
Finalize(f, c, dry, outcome, now) ==
    LET migrate == /\ IsComplete(CompletionCount(f, c.save_dir), c.expected_total)
                   /\ Len(Split(BaseName(c.save_dir), SEP)) = 3
        r == IF migrate
             THEN rename_old_dir_to_new(f, c.save_dir, BaseSub, c.folder_name,
                                        dry, outcome, now)
             ELSE [fs |-> f, ret |-> NoPath]
        save_dir == IF migrate /\ r.ret # NoPath THEN r.ret ELSE c.save_dir
        renames == IF migrate
                   THEN Append(c.renames, RenameCall("post", f, c.save_dir, BaseSub,
                                                     c.folder_name, dry, r))
                   ELSE c.renames
    IN [fs |-> write_meta_json(r.fs, save_dir, c.hash8, now), pc |-> "done",
        cur |-> [c EXCEPT !.save_dir = save_dir, !.renames = renames,
                          !.meta_dir = save_dir]]

-----------------------------------------------------------------------------
(* Initial trees: what earlier runs, of this version or of the version     *)
(* that named directories date-title-total, left below the download root.  *)

\* the items that earlier runs have left directories of
WorkItems == {ItemA, ItemB}

ExpectedTotal(item) == parse_story_viewer(item, TRUE).total

CanonicalName(item) ==
    make_folder_name(item.date, item.title, ExpectedTotal(item),
                     extract_slug(item.detail_url), item.date = <<>>).folder

\* the name the earlier version gave the work: date, title, total
LegacyName(item) ==
    item.date \o <<SEP>> \o item.title \o <<SEP>> \o IntToStr(ExpectedTotal(item))

\* the media files of the finished work
MediaNames(item) ==
    LET story == parse_story_viewer(item, TRUE)
    IN IF story.video # NoVideo THEN <<story.video.mp4_name>> ELSE story.imgs

\* a directory with the first k files of the work, n dead links, and
\* possibly a meta.json written before hashes existed
ListingOf(item, k, n, with_meta) ==
    LET names == MediaNames(item)
        media == [name \in {names[i] : i \in 1..k} |-> MediaFile]
        links == IF n > 0 THEN WithFile(media, MISSING_LINKS_FILENAME, LinksFile(n))
                 ELSE media
    IN IF with_meta THEN WithFile(links, META_JSON, MetaFile(NoHash, 0)) ELSE links

InitListings(item) ==
    LET t == ExpectedTotal(item)
    IN IF item \notin WorkItems THEN {}
       ELSE { ListingOf(item, t - 1, 0, FALSE),
              ListingOf(item, t, 0, TRUE),
              ListingOf(item, t - 1, 1, TRUE) }

\* the directory of another work of the same date and size, under the
\* earlier naming
BystanderName(item) ==
    item.date \o <<SEP>> \o <<"x">> \o <<SEP>> \o IntToStr(ExpectedTotal(item))

\* the paths the item's directories can have: either name, in either
\* subdirectory; and the bystander's
InitPaths(item) ==
    IF item \notin WorkItems THEN {}
    ELSE { Path(sub, name) :
             sub \in Subs, name \in {CanonicalName(item), LegacyName(item)} }
         \cup { Path(BaseSub, BystanderName(item)) }

\* the trees a run over the item can start from.  The lookup reuses a
\* directory across subdirectories, so a name occurs in one subdirectory at
\* most: the item's canonical directory, its legacy directory and the
\* bystander may each be there or not.
InitTrees(item) ==
    LET Well(D) == \A p \in D, q \in D : p[2] = q[2] => p = q
        Listings(p) == IF p[2] = BystanderName(item)
                       THEN {ListingOf(item, ExpectedTotal(item), 0, TRUE)}
                       ELSE InitListings(item)
    IN UNION { { t \in [ D -> InitListings(item) ] : \A p \in D : t[p] \in Listings(p) } :
               D \in { D \in SUBSET InitPaths(item) : Well(D) } }

\* no helper function has been called directly
NoProbe == [fn |-> "none"]

Init ==
    /\ listed \in Items
    /\ fs \in InitTrees(listed)
    /\ dryRun \in BOOLEAN
    /\ clock = 0
    /\ pc = "idle"
    /\ cur = EmptyCur
    /\ lastCalls = <<>>
    /\ probe = NoProbe

-----------------------------------------------------------------------------
(* Actions *)

Apply(r) ==
    /\ fs' = r.fs
    /\ pc' = r.pc
    /\ cur' = r.cur

ProcessItemResolve ==
    /\ pc = "idle"
    /\ clock < MaxPasses
    /\ clock' = clock + 1
    /\ \E story_found \in BOOLEAN, viewer_ok \in BOOLEAN,
          order \in ScanOrders(fs), outcome \in RenameOutcomes :
            Apply(Resolve(fs, listed, story_found, viewer_ok, order, dryRun, outcome,
                          clock + 1))
    /\ UNCHANGED <<dryRun, listed, lastCalls, probe>>

ProcessItemSkipCheck ==
    /\ pc = "check"
    /\ \E outcome \in RenameOutcomes :
            Apply(SkipCheck(fs, cur, dryRun, outcome, clock))
    /\ UNCHANGED <<dryRun, clock, listed, lastCalls, probe>>

ProcessItemDownload ==
    /\ pc = "download"
    /\ \E outcomes \in [1..Len(cur.story.imgs) -> DownloadOutcomes],
          video_outcome \in DownloadOutcomes, converted \in BOOLEAN :
            LET r == Download(fs, cur, outcomes, video_outcome, converted)
            IN /\ count_missing_links(r.fs, cur.save_dir) <= MaxMissing
               /\ Apply(r)
    /\ UNCHANGED <<dryRun, clock, listed, lastCalls, probe>>

ProcessItemFinalize ==
    /\ pc = "finalize"
    /\ \E outcome \in RenameOutcomes :
            Apply(Finalize(fs, cur, dryRun, outcome, clock))
    /\ UNCHANGED <<dryRun, clock, listed, lastCalls, probe>>

ProcessItemReturn ==
    /\ pc = "done"
    /\ pc' = "idle"
    /\ cur' = EmptyCur
    /\ UNCHANGED <<fs, dryRun, clock, listed, lastCalls, probe>>

Next ==
    \/ ProcessItemResolve
    \/ ProcessItemSkipCheck
    \/ ProcessItemDownload
    \/ ProcessItemFinalize
    \/ ProcessItemReturn

Spec == Init /\ [][Next]_vars

-----------------------------------------------------------------------------
(* rename_old_dir_to_new called directly, several times in a row, on any  *)
(* source path, with the target every caller passes (BASE_DOWNLOAD_DIR and *)
(* the item's folder name) and the configured dry_run: the migration       *)
(* operation on its own.                                                   *)

MigrateCall ==
    /\ pc = "idle"
    /\ Len(lastCalls) < MaxCalls
    /\ \E old_dir \in InitPaths(listed), outcome \in RenameOutcomes :
            LET name == CanonicalName(listed)
                r == rename_old_dir_to_new(fs, old_dir, BaseSub, name, dryRun,
                                           outcome, clock + 1)
            IN /\ fs' = r.fs
               /\ lastCalls' = Append(lastCalls,
                                      RenameCall("direct", fs, old_dir, BaseSub,
                                                 name, dryRun, r))
    /\ clock' = clock + 1
    /\ UNCHANGED <<dryRun, pc, cur, listed, probe>>

MigrateInit == Init /\ listed \in WorkItems

MigrateNext == MigrateCall

SpecMigrate == MigrateInit /\ [][MigrateNext]_vars

-----------------------------------------------------------------------------
(* Vocabulary of the properties *)

\* a pass that got as far as choosing its working directory
InPass == pc \in {"check", "download", "finalize", "done"} /\ cur.skipped = ""

\* the pass has taken the skip-or-download decision of step 7
Decided == InPass /\ pc # "check"

\* name is a legacy name of the pass's item: three segments, the same date,
\* the same first TitleLimit characters of the title, the same total, no hash
LegacyNamed(name, c) ==
    LET parts == Split(name, SEP)
        target == Split(c.folder_name, SEP)
        date == IF Len(target) = 4 THEN target[1] ELSE <<>>
    IN /\ Len(parts) = 3
       /\ parts[1] = date
       /\ Take(parts[2], TitleLimit) = target[2]
       /\ parts[3] = target[3]

LegacyDirs(f, c) == { p \in DOMAIN f : LegacyNamed(p[2], c) }

CanonicalDirs(f, c) == { p \in DOMAIN f : p[2] = c.folder_name }

WorkDirs(f, c) == LegacyDirs(f, c) \cup CanonicalDirs(f, c)

Range(s) == { s[i] : i \in 1..Len(s) }

-----------------------------------------------------------------------------
(* Properties *)

\* C1 as stated: whenever some legacy-named directory of the item has a
\* completion count >= the expected total, the pass decides "done" and calls
\* neither download_images nor download_video.
C1_AnyCompleteLegacyDirSkips ==
    (/\ Decided
     /\ \E p \in LegacyDirs(cur.fs0, cur) :
            CompletionCount(cur.fs0, p) >= cur.expected_total)
    => (cur.decision = "skip" /\ cur.downloads = <<>>)

\* C1 as amended: when the directory the lookup resolves for the item is a
\* legacy-named directory whose completion count >= the expected total, the
\* pass decides "done" and calls neither download_images nor download_video.
C1_ResolvedCompleteLegacyDirSkips ==
    (/\ Decided
     /\ cur.chosen_dir \in LegacyDirs(cur.fs0, cur)
     /\ CompletionCount(cur.fs0, cur.chosen_dir) >= cur.expected_total)
    => (cur.decision = "skip" /\ cur.downloads = <<>>)

C1_Witness ==
    /\ pc = "done"
    /\ InPass
    /\ cur.chosen_dir \in LegacyDirs(cur.fs0, cur)
    /\ CompletionCount(cur.fs0, cur.chosen_dir) = cur.expected_total
    /\ cur.decision = "skip"
    /\ cur.downloads = <<>>

\* C2: when the item's only work directory is a legacy-named one with a
\* completion count < the expected total, the pass downloads into that
\* directory and, at its end, no canonical-named directory of the item has
\* been created next to it.
C2_IncompleteLegacyDirReusedAlone ==
    (/\ pc = "done"
     /\ InPass
     /\ \E p \in LegacyDirs(cur.fs0, cur) :
            /\ WorkDirs(cur.fs0, cur) = {p}
            /\ CompletionCount(cur.fs0, p) < cur.expected_total)
    => (/\ \A d \in Range(cur.downloads) : d.dir \in LegacyDirs(cur.fs0, cur)
        /\ ~(/\ LegacyDirs(fs, cur) # {}
             /\ CanonicalDirs(fs, cur) # {}))

\* C3: two calls in a row with the same source and target, dry_run off, the
\* first one having migrated the directory: the second returns the same
\* destination path and changes nothing.
C3_SecondCallReturnsDestination ==
    \A i \in 1..(Len(lastCalls) - 1) :
        LET a == lastCalls[i]
            b == lastCalls[i + 1]
        IN (/\ a.old_dir = b.old_dir
            /\ a.new_dir = b.new_dir
            /\ ~a.dry_run /\ ~b.dry_run
            /\ a.ret # NoPath)
           => (b.ret = a.ret /\ b.after = b.before)

C5_DryRunMovesNothing ==
    InPass =>
        \A i \in 1..Len(cur.renames) :
            LET c == cur.renames[i]
            IN c.dry_run =>
                /\ c.ret = c.new_dir
                /\ c.after = c.before
                /\ IsDir(c.after, c.old_dir)
                /\ pc = "done" =>
                    /\ IsDir(fs, c.old_dir)
                    /\ c.old_dir # c.new_dir => fs[c.old_dir] = c.before[c.old_dir]
                    /\ \A name \in DOMAIN c.before[c.old_dir] \cup DOMAIN fs[c.old_dir] :
                          name # META_JSON =>
                            /\ name \in DOMAIN c.before[c.old_dir]
                            /\ name \in DOMAIN fs[c.old_dir]
                            /\ fs[c.old_dir][name] = c.before[c.old_dir][name]

C5_Witness ==
    /\ pc = "done"
    /\ InPass
    /\ dryRun
    /\ \E i \in 1..Len(cur.renames) :
          LET c == cur.renames[i]
          IN /\ c.dry_run
             /\ c.phase = "post"
             /\ ~IsDir(c.before, c.new_dir)
             /\ c.ret = c.new_dir
             /\ IsDir(fs, c.old_dir)

\* C6: a pass over an item that has at most one work directory (canonical or
\* legacy) leaves it with at most one.
C6_AtMostOneWorkDir ==
    (/\ pc = "done"
     /\ InPass
     /\ Cardinality(WorkDirs(cur.fs0, cur)) <= 1)
    => Cardinality(WorkDirs(fs, cur)) <= 1

\* C7: when a directory with the item's canonical name exists, the pass
\* chooses a canonical-named directory as its working directory.
C7_CanonicalDirPreferred ==
    (InPass /\ CanonicalDirs(cur.fs0, cur) # {})
    => cur.chosen_dir \in CanonicalDirs(cur.fs0, cur)

\* C8: when the item has neither a canonical-named nor a legacy-named
\* directory, the working directory is BASE_DOWNLOAD_DIR/folder_name, the
\* downloads go there, nothing else below the download root changes, and
\* the pass ends with meta.json written there.
C8_FreshDirUnderBase ==
    (InPass /\ WorkDirs(cur.fs0, cur) = {})
    => LET w == Path(BaseSub, cur.folder_name)
       IN /\ cur.chosen_dir = w
          /\ cur.save_dir = w
          /\ \A d \in Range(cur.downloads) : d.dir = w
          /\ \A p \in DOMAIN cur.fs0 : p \in DOMAIN fs
          /\ \A p \in DOMAIN fs : p # w => (p \in DOMAIN cur.fs0 /\ fs[p] = cur.fs0[p])
          /\ (/\ pc \in {"finalize", "done"}
              /\ (cur.story.imgs # <<>> \/ cur.story.video # NoVideo))
             => cur.downloads # <<>>
          /\ pc = "done" =>
                /\ cur.meta_dir = w
                /\ IsDir(fs, w)
                /\ META_JSON \in DOMAIN fs[w]
                /\ fs[w][META_JSON] = MetaFile(cur.hash8, clock)

C8_Witness ==
    /\ pc = "done"
    /\ InPass
    /\ WorkDirs(cur.fs0, cur) = {}
    /\ DOMAIN cur.fs0 # {}
    /\ cur.meta_dir = Path(BaseSub, cur.folder_name)
    /\ count_finished_files(fs, cur.meta_dir) > 0
    /\ count_missing_links(fs, cur.meta_dir) > 0

\* C9: a pass in which a migration call returned the failure value goes on
\* with the canonical-named directory under BASE_DOWNLOAD_DIR as its working
\* directory.
C9_FailedMigrationFallsBackToFreshDir ==
    (/\ pc = "done"
     /\ InPass
     /\ \E i \in 1..Len(cur.renames) : cur.renames[i].ret = NoPath)
    => cur.save_dir = Path(BaseSub, cur.folder_name)

\* C10, its frame half: a directory named with the item's special-case
\* canonical name (hash first, three segments) is not moved or renamed by a
\* pass: at the end of the pass it is still where it was, in whichever
\* subdirectory of the download root that is.
C10_SpecialCanonicalDirNeverMigrated ==
    (InPass /\ Len(Split(cur.folder_name, SEP)) = 3)
    => \A p \in CanonicalDirs(cur.fs0, cur) : IsDir(fs, p)

\* C11: in a pass that reuses an incomplete legacy-named directory no
\* migration is attempted before the downloads; and when the downloads have
\* made it complete (dry_run off, no migration call failing), the last step
\* of the pass leaves no directory under the legacy path: it has been moved
\* to BASE_DOWNLOAD_DIR/folder_name.
C11_CompletedLegacyDirMigratedAfterDownload ==
    [][(/\ pc = "finalize"
        /\ cur.chosen_dir \in LegacyDirs(cur.fs0, cur)
        /\ CompletionCount(cur.fs0, cur.chosen_dir) < cur.expected_total)
       => /\ cur.renames = <<>>
          /\ (/\ CompletionCount(fs, cur.save_dir) >= cur.expected_total
              /\ ~dryRun
              /\ \A i \in 1..Len(cur'.renames) : cur'.renames[i].ret # NoPath)
             => /\ ~IsDir(fs', cur.chosen_dir)
                /\ IsDir(fs', Path(BaseSub, cur.folder_name))]_vars

\* C12: after every call that moved the item's legacy directory holding
\* meta.json (dry_run off, the move succeeding), whether the target name has 4 segments or is
\* the special 3-segment one, meta.json in the destination has the item's
\* hash in its hash field and a download_time later than it had.
C12_MovedMetaCarriesHash ==
    \A i \in 1..Len(lastCalls) :
        LET c == lastCalls[i]
        IN (/\ IsDir(c.before, c.old_dir)
            /\ c.old_dir[2] = LegacyName(listed)
            /\ ~IsDir(c.before, c.new_dir)
            /\ ~c.dry_run
            /\ c.ret # NoPath
            /\ META_JSON \in DOMAIN c.before[c.old_dir])
           => /\ IsDir(c.after, c.new_dir)
              /\ META_JSON \in DOMAIN c.after[c.new_dir]
              /\ c.after[c.new_dir][META_JSON].hash
                    = slug_to_hash(extract_slug(listed.detail_url))
              /\ c.after[c.new_dir][META_JSON].time
                    > c.before[c.old_dir][META_JSON].time

\* where the files of the directory at path p are after a step: in p, or,
\* when p is gone, in BASE_DOWNLOAD_DIR/<the item's folder name>
HomeAfter(p, f1) ==
    IF IsDir(f1, p) THEN p ELSE Path(BaseSub, CanonicalName(listed))

\* C13: no step of any pass loses data: every file other than meta.json
\* that was in a directory is afterwards in the same directory or in the
\* directory it was migrated to, no smaller and with no fewer dead-link
\* lines; and a directory that was moved arrives with exactly the files it
\* had (meta.json aside, which migration and the pass rewrite).
C13_NoDataLoss ==
    [][\A p \in DOMAIN fs :
          LET q == HomeAfter(p, fs')
          IN /\ IsDir(fs', q)
             /\ \A name \in DOMAIN fs[p] \ {META_JSON} :
                   /\ name \in DOMAIN fs'[q]
                   /\ fs'[q][name].size >= fs[p][name].size
                   /\ Len(fs'[q][name].lines) >= Len(fs[p][name].lines)
                   /\ SubSeq(fs'[q][name].lines, 1, Len(fs[p][name].lines))
                         = fs[p][name].lines
             /\ ~IsDir(fs', p) =>
                   /\ DOMAIN fs'[q] \ {META_JSON} = DOMAIN fs[p] \ {META_JSON}
                   /\ \A name \in DOMAIN fs[p] \ {META_JSON} :
                         fs'[q][name] = fs[p][name]]_vars

C13_Witness ==
    /\ pc = "done"
    /\ InPass
    /\ \E i \in 1..Len(cur.renames) :
          LET c == cur.renames[i]
          IN /\ ~c.dry_run
             /\ c.ret = c.new_dir
             /\ c.old_dir # c.new_dir
             /\ IsDir(c.before, c.old_dir)
             /\ ~IsDir(fs, c.old_dir)
             /\ count_finished_files(c.before, c.old_dir) > 0
             /\ count_missing_links(c.before, c.old_dir) > 0
             /\ count_finished_files(fs, c.new_dir)
                   = count_finished_files(c.before, c.old_dir)
             /\ count_missing_links(fs, c.new_dir)
                   = count_missing_links(c.before, c.old_dir)

-----------------------------------------------------------------------------
(* count_finished_files and count_missing_links called directly on one     *)
(* directory in any state: missing, or holding any mix of media files,     *)
(* empty files, temporary and hidden files, a subdirectory, meta.json and  *)
(* a dead-link record with URL lines, blank lines and whitespace-only      *)
(* lines.  The directory then grows the ways a pass makes it grow.         *)

MaxLines == 3

ProbeDir == Path(BaseSub, <<"w">>)

TempName == <<"1", ".", "p", "a", "r", "t">>
UpperTempName == <<"2", ".", "P", "A", "R", "T">>
HiddenName == <<".", "h">>

\* a subdirectory of the work directory: os.path.isfile is false for it
SubDirEntry == [isfile |-> FALSE, size |-> 1, lines |-> <<>>, hash |-> NoHash, time |-> 0]

\* the dead-link record with the given text
TextFile(lines) ==
    [isfile |-> TRUE, size |-> IF lines = <<>> THEN 0 ELSE 1, lines |-> lines,
     hash |-> NoHash, time |-> 0]

\* what each name can be in the directory; Absent stands for "not there"
Absent == [isfile |-> FALSE, size |-> 0, lines |-> <<>>, hash |-> NoHash, time |-> 0]

ProbeEntries(name) ==
    CASE name = F1 -> {Absent, MediaFile, EmptyFile}
      [] name = F2 -> {Absent, MediaFile, SubDirEntry}
      [] name = MISSING_LINKS_FILENAME ->
            {Absent, SubDirEntry, TextFile(<<>>), TextFile(<<UrlLine>>),
             TextFile(<<UrlLine, <<>>, UrlLine>>), TextFile(<<<<" ", "TAB">>>>)}
      [] OTHER -> {Absent, MediaFile}

ProbeNames == {F1, F2, TempName, UpperTempName, HiddenName, META_JSON,
               MISSING_LINKS_FILENAME}

\* the listings of the directory: every choice of entry for every name
ProbeListings ==
    { [n \in {m \in ProbeNames : g[m] # Absent} |-> g[n]] :
        g \in { h \in [ProbeNames -> UNION {ProbeEntries(n) : n \in ProbeNames}] :
                 \A n \in ProbeNames : h[n] \in ProbeEntries(n) } }

CountInit ==
    /\ fs \in {[q \in {} |-> EmptyDir]} \cup {[q \in {ProbeDir} |-> d] : d \in ProbeListings}
    /\ dryRun = FALSE
    /\ clock = 0
    /\ pc = "idle"
    /\ cur = EmptyCur
    /\ listed = ItemE
    /\ lastCalls = <<>>
    /\ probe = NoProbe

\* both counters called on the directory
CountCompletion ==
    /\ probe' = [fn |-> "count",
                 finished |-> count_finished_files(fs, ProbeDir),
                 missing |-> count_missing_links(fs, ProbeDir)]
    /\ UNCHANGED <<fs, dryRun, clock, pc, cur, listed, lastCalls>>

\* a URL line is added to the dead-link record (a download answered 404)
AddDeadLink ==
    /\ IsDir(fs, ProbeDir)
    /\ MISSING_LINKS_FILENAME \in DOMAIN fs[ProbeDir]
            => /\ fs[ProbeDir][MISSING_LINKS_FILENAME].isfile
               /\ Len(fs[ProbeDir][MISSING_LINKS_FILENAME].lines) < MaxLines
    /\ fs' = safe_download(fs, F1, ProbeDir, "notfound")
    /\ probe' = [fn |-> "add_line",
                 before |-> CompletionCount(fs, ProbeDir),
                 after |-> CompletionCount(fs', ProbeDir)]
    /\ UNCHANGED <<dryRun, clock, pc, cur, listed, lastCalls>>

\* a zero-byte file appears under a name that was free (a download that
\* wrote nothing)
AddEmptyFile ==
    /\ IsDir(fs, ProbeDir)
    /\ \E name \in ProbeNames \ DOMAIN fs[ProbeDir] :
          /\ fs' = WithDir(fs, ProbeDir, WithFile(fs[ProbeDir], name, EmptyFile))
          /\ probe' = [fn |-> "add_empty",
                       before |-> CompletionCount(fs, ProbeDir),
                       after |-> CompletionCount(fs', ProbeDir)]
    /\ UNCHANGED <<dryRun, clock, pc, cur, listed, lastCalls>>

\* meta.json is written into the directory
WriteMeta ==
    /\ fs' = write_meta_json(fs, ProbeDir, slug_to_hash("work-a"), clock)
    /\ probe' = [fn |-> "write_meta",
                 before |-> CompletionCount(fs, ProbeDir),
                 after |-> CompletionCount(fs', ProbeDir)]
    /\ UNCHANGED <<dryRun, clock, pc, cur, listed, lastCalls>>

CountNext ==
    \/ CountCompletion
    \/ AddDeadLink
    \/ AddEmptyFile
    \/ WriteMeta

SpecCount == CountInit /\ [][CountNext]_vars

\* C14: count_finished_files + count_missing_links is the number of regular
\* files of the directory with size > 0 whose name is not the dead-link
\* record, not meta.json, not hidden and without a temporary suffix, plus
\* the number of non-blank lines of the dead-link record; and it is 0 when
\* the directory does not exist.
C14_CompletionCountFormula ==
    probe.fn = "count" =>
        IF ~IsDir(fs, ProbeDir) THEN probe.finished + probe.missing = 0
        ELSE LET d == fs[ProbeDir]
                 counted ==
                    { name \in DOMAIN d :
                        /\ d[name].isfile
                        /\ d[name].size > 0
                        /\ name # MISSING_LINKS_FILENAME
                        /\ name # META_JSON
                        /\ Head(name) # "."
                        /\ \A suf \in { <<".", "p", "a", "r", "t">>, <<".", "t", "m", "p">>,
                                         <<".", "p", "a", "r", "t", "i", "a", "l">>,
                                         <<".", "d", "o", "w", "n", "l", "o", "a", "d">> } :
                              ~EndsWith(Lower(name), suf) }
                 nonblank ==
                    IF MISSING_LINKS_FILENAME \in DOMAIN d /\ d[MISSING_LINKS_FILENAME].isfile
                    THEN LET text == d[MISSING_LINKS_FILENAME].lines
                         IN Cardinality({ i \in 1..Len(text) :
                                \E j \in 1..Len(text[i]) : text[i][j] \notin WhitespaceChars })
                    ELSE 0
             IN probe.finished + probe.missing = Cardinality(counted) + nonblank

C14_Witness ==
    /\ probe.fn = "count"
    /\ IsDir(fs, ProbeDir)
    /\ {F1, F2, TempName, UpperTempName, HiddenName, META_JSON, MISSING_LINKS_FILENAME}
          \subseteq DOMAIN fs[ProbeDir]
    /\ fs[ProbeDir][F1] = MediaFile
    /\ fs[ProbeDir][F2] = SubDirEntry
    /\ fs[ProbeDir][MISSING_LINKS_FILENAME].lines = <<UrlLine, <<>>, UrlLine>>
    /\ probe.finished = 1
    /\ probe.missing = 2

\* C15: adding a line to the dead-link record raises the completion count
\* by exactly 1; adding a zero-byte file, or writing meta.json, leaves it
\* as it was.
C15_CompletionCountSteps ==
    /\ probe.fn = "add_line" => probe.after = probe.before + 1
    /\ probe.fn \in {"add_empty", "write_meta"} => probe.after = probe.before

C15_Witness ==
    /\ probe.fn = "add_line"
    /\ probe.before >= 2
    /\ probe.after = probe.before + 1
    /\ count_finished_files(fs, ProbeDir) > 0
    /\ Len(fs[ProbeDir][MISSING_LINKS_FILENAME].lines) > count_missing_links(fs, ProbeDir)

\* C16 as stated: a pass that has chosen its working directory calls a
\* download function if and only if the completion count of that directory
\* is < the expected total.
C16_DownloadsIffIncomplete ==
    (InPass /\ pc = "done")
    => (cur.downloads # <<>>
          <=> CompletionCount(cur.fs0, cur.chosen_dir) < cur.expected_total)

\* C16 as amended: the pass goes on to the download steps if and only if the
\* completion count of the chosen directory is < the expected total,
\* whichever way the directory was found; and then download_images is called
\* exactly when the viewer gave images, download_video exactly when it gave
\* a video, both on the chosen directory.
C16_DownloadStepsIffIncomplete ==
    (InPass /\ pc = "done")
    => LET incomplete == CompletionCount(cur.fs0, cur.chosen_dir) < cur.expected_total
           Called(fn) == \E d \in Range(cur.downloads) : d.fn = fn
       IN /\ cur.decision = (IF incomplete THEN "continue" ELSE "skip")
          /\ Called("download_images") <=> (incomplete /\ cur.story.imgs # <<>>)
          /\ Called("download_video") <=> (incomplete /\ cur.story.video # NoVideo)
          /\ \A d \in Range(cur.downloads) : d.dir = cur.chosen_dir

C16_Witness ==
    /\ pc = "done"
    /\ InPass
    /\ cur.chosen_dir \in LegacyDirs(cur.fs0, cur)
    /\ CompletionCount(cur.fs0, cur.chosen_dir) = cur.expected_total - 1
    /\ CompletionCount(cur.fs0, cur.chosen_dir) > 0
    /\ cur.decision = "continue"
    /\ cur.downloads # <<>>

-----------------------------------------------------------------------------
(* make_folder_name called directly, call after call, on any arguments:    *)
(* null, empty, blank and unprintable titles, titles with spaces, with the *)
(* separator character and longer than the limit, dates with slashes, the  *)
(* slug of the documented scenario, an empty and a null slug.  probe keeps *)
(* the last call with its result, and the slug, is_special and hash of the *)
(* call before it.                                                         *)

ProbeTitles ==
    { NoneStr, <<>>, <<"a">>, <<"A", " ", "B", " ", " ", "C">>, <<" ", "TAB">>,
      <<"NUL">>, <<SEP>>, <<"a", SEP, "b">>, [i \in 1..(TitleLimit + 1) |-> "x"] }

ProbeDates ==
    { NoneStr, <<>>, <<"d">>, <<"2", "0", "1", "3", "/", "0", "4", "/", "1", "5">> }

ProbeTotals == {3}

ProbeSlugs == {"ai-photo-22-ai-generated-2", "", "PyNone"}

NameInit ==
    /\ fs = [q \in {} |-> EmptyDir]
    /\ dryRun = FALSE
    /\ clock = 0
    /\ pc = "idle"
    /\ cur = EmptyCur
    /\ listed = ItemE
    /\ lastCalls = <<>>
    /\ probe = NoProbe

MakeFolderName ==
    /\ \E date \in ProbeDates, title \in ProbeTitles, total \in ProbeTotals,
          slug \in ProbeSlugs, is_special \in BOOLEAN :
          LET r == make_folder_name(date, title, total, slug, is_special)
          IN probe' =
                [fn |-> "make_folder_name",
                 last |-> [date |-> date, title |-> title, total |-> total,
                           slug |-> slug, is_special |-> is_special,
                           folder |-> r.folder, title_truncated |-> r.title_truncated,
                           hash8 |-> r.hash8],
                 prev |-> IF probe.fn = "none" THEN <<>>
                          ELSE <<[slug |-> probe.last.slug,
                                  is_special |-> probe.last.is_special,
                                  hash8 |-> probe.last.hash8]>>]
    /\ UNCHANGED <<fs, dryRun, clock, pc, cur, listed, lastCalls>>

NameNext == MakeFolderName

SpecName == NameInit /\ [][NameNext]_vars

HexChars == {"0", "1", "2", "3", "4", "5", "6", "7", "8", "9", "a", "b", "c", "d", "e", "f"}

C18_NoEmptySegment ==
    probe.fn = "make_folder_name" =>
        LET parts == Split(probe.last.folder, SEP)
        IN \A i \in 1..Len(parts) : parts[i] # <<>>

\* C19: for slug ai-photo-22-ai-generated-2, title "A B  C", date
\* "2013/04/15", total 3, not special, make_folder_name returns the title segment A_B_C and the folder name
\* 2013_04_15 SEP A_B_C SEP 3 SEP hash8.
C19_DocumentedScenario ==
    (/\ probe.fn = "make_folder_name"
     /\ probe.last.title = <<"A", " ", "B", " ", " ", "C">>
     /\ probe.last.date = <<"2", "0", "1", "3", "/", "0", "4", "/", "1", "5">>
     /\ probe.last.total = 3
     /\ probe.last.slug = "ai-photo-22-ai-generated-2"
     /\ ~probe.last.is_special)
    => /\ probe.last.title_truncated = <<"A", "_", "B", "_", "C">>
       /\ probe.last.folder =
             <<"2", "0", "1", "3", "_", "0", "4", "_", "1", "5", SEP,
               "A", "_", "B", "_", "C", SEP, "3", SEP>> \o probe.last.hash8

\* C20: for every title and date the folder name holds no path separator
\* and splits on the separator into exactly 4 segments when not special
\* and exactly 3 when special.
C20_FolderNameParses ==
    probe.fn = "make_folder_name" =>
        /\ \A i \in 1..Len(probe.last.folder) : probe.last.folder[i] \notin {"/", "\\"}
        /\ Len(Split(probe.last.folder, SEP)) = (IF probe.last.is_special THEN 3 ELSE 4)

-----------------------------------------------------------------------------
(* main.crawl over a site.  probe holds the configuration (GLOBAL_PAGE,    *)
(* CRAWL_MODE), the locals of the call (is_special, last_page, start_page, *)
(* page, items, items_all), the position in its loops, and a log of what   *)
(* the run did: every safe_request of a list page with its result, every   *)
(* page parsed in a traversal loop, every process_item call; fs0 is the    *)
(* download root as the run found it.  A page's HTML is represented by the *)
(* page's number; None is 0.                                               *)

\* the pages of the unbounded site, and of the site with a result count
ChainPages == 5
BoundedPages == 3

\* Python s[::-1]
Reverse(s) == [i \in 1..Len(s) |-> s[Len(s) + 1 - i]]

\* a list entry without detail link: the i-th of page p
Entry(p, i) ==
    [detail_url |-> NoUrl, title |-> <<"p">> \o IntToStr(p) \o <<"-">> \o IntToStr(i),
     date |-> <<"d">>]

\* parser_list.parse_list_page: the entries of a page, top to bottom.  The
\* site lists newer works first; the work with two images is the older
\* entry of page 1.
parse_list_page(html) ==
    IF html = 1 THEN <<Entry(1, 1), ItemA>> ELSE <<Entry(html, 1), Entry(html, 2)>>

\* every page but the last links to the page after it
Chain(n) == [p \in 1..n |-> IF p < n THEN p + 1 ELSE 0]

\* a site: its pages 1..pages, the result count and the number in the
\* "last" link of its first page (0: absent), the number in the next-page
\* link of every page (0: absent).  A search with a count and a last link,
\* a ranking with neither, a ranking with a last link and no count, and a
\* search whose results fit one page.
Sites ==
    { [pages |-> BoundedPages, total |-> 2 * BoundedPages, last |-> BoundedPages,
       next |-> Chain(BoundedPages)],
      [pages |-> ChainPages, total |-> 0, last |-> 0, next |-> Chain(ChainPages)],
      [pages |-> ChainPages, total |-> 0, last |-> ChainPages, next |-> Chain(ChainPages)],
      [pages |-> 1, total |-> 2, last |-> 0, next |-> Chain(1)] }

\* config.GLOBAL_PAGE: automatic, a page of every multi-page site, a page
\* past the end of the bounded site
GlobalPages == {0, 2, BoundedPages + 1}

\* config.CRAWL_MODE: 1 collects all pages first, 2 processes page by page
CrawlModes == {1, 2}

\* parser_list.build_list_page_url: the page the URL addresses
build_list_page_url(page) == IF page <= 1 THEN 1 ELSE page

\* what safe_request can return for a list page: the page (TRUE) or None
\* after its retries (FALSE); a page the site does not have is never served
FetchOutcomes(site, url) == IF url \in 1..site.pages THEN BOOLEAN ELSE {FALSE}

\* a classification that looks at the result count alone
parse_last_page_and_total_by_count(site) ==
    IF site.total > 0
    THEN [last_page |-> site.last, total_count |-> site.total, is_special |-> FALSE]
    ELSE [last_page |-> 0, total_count |-> 0, is_special |-> TRUE]

\* parser_list.parse_last_page_and_total on the first page
parse_last_page_and_total(site) ==
    LET is_special == ~(site.total > 0 /\ site.last # 0)
    IN IF is_special THEN [last_page |-> 0, total_count |-> 0, is_special |-> TRUE]
       ELSE [last_page |-> site.last, total_count |-> site.total, is_special |-> FALSE]

\* a next-page parser that reads the number of the page after the next
get_next_page_number_skipping(site, html) ==
    IF site.next[html] = 0 \/ site.next[html] + 1 > site.pages THEN 0
    ELSE site.next[html] + 1

\* parser_list.get_next_page_number on the HTML of a page
get_next_page_number(site, html) == site.next[html]

\* the only element of a singleton
The(S) == CHOOSE x \in S : TRUE

\* main.process_item as one call: the steps of a pass in sequence, each
\* step's result computed once and handed to the next
process_item(f, item, story_found, viewer_ok, order, dry, outcome, outcomes, video_outcome, converted, now) ==
    LET Checked(r1) == IF r1.pc = "check"
                       THEN SkipCheck(r1.fs, r1.cur, dry, outcome, now) ELSE r1
        Downloaded(r2) == IF r2.pc = "download"
                          THEN Download(r2.fs, r2.cur, outcomes, video_outcome, converted)
                          ELSE r2
        Finalized(r3) == IF r3.pc = "finalize"
                         THEN Finalize(r3.fs, r3.cur, dry, outcome, now) ELSE r3
        s1 == { Resolve(f, item, story_found, viewer_ok, order, dry, outcome, now) }
        s2 == { Checked(r1) : r1 \in s1 }
        s3 == { Downloaded(r2) : r2 \in s2 }
    IN The({ Finalized(r3) : r3 \in s3 })

\* the download root at the start of a run: empty, or holding the finished
\* work under the name an earlier version gave it
CrawlTrees ==
    { [q \in {} |-> EmptyDir],
      [q \in {Path(BaseSub, LegacyName(ItemA))} |->
          ListingOf(ItemA, ExpectedTotal(ItemA), 0, TRUE)] }

Log(c, e) == [c EXCEPT !.log = Append(@, e)]

Requested(c, page, ok) == Log(c, [ev |-> "request", page |-> page, ok |-> ok])

\* a page's entries taken into the traversal
Parsed(c, page) == Log(c, [ev |-> "parse", page |-> page])

CrawlInit ==
    /\ fs \in CrawlTrees
    /\ dryRun = FALSE
    /\ clock = 0
    /\ pc = "idle"
    /\ cur = EmptyCur
    /\ listed = ItemA
    /\ lastCalls = <<>>
    /\ \E site \in Sites, global_page \in GlobalPages, crawl_mode \in CrawlModes :
          probe = [fn |-> "crawl", site |-> site, GLOBAL_PAGE |-> global_page,
                   CRAWL_MODE |-> crawl_mode, at |-> "start", is_special |-> FALSE,
                   last_page |-> 0, start_page |-> 0, page |-> 0, items |-> <<>>,
                   items_all |-> <<>>, log |-> <<>>, fs0 |-> fs]

\* lines 267-284 and 345-350: the first page, the strategy, the first loop
CrawlFirstPage ==
    /\ probe.fn = "crawl"
    /\ probe.at = "start"
    /\ \E ok \in FetchOutcomes(probe.site, build_list_page_url(1)) :
          LET c0 == Requested(probe, 1, ok)
              info == parse_last_page_and_total(probe.site)
              current_page == IF probe.GLOBAL_PAGE > 0 THEN probe.GLOBAL_PAGE ELSE 1
              start_page == IF probe.GLOBAL_PAGE > 0 THEN probe.GLOBAL_PAGE
                            ELSE info.last_page
          IN probe' =
                IF ~ok THEN [c0 EXCEPT !.at = "returned"]
                ELSE IF info.is_special
                     THEN [c0 EXCEPT !.is_special = TRUE,
                                     !.last_page = info.last_page,
                                     !.page = current_page,
                                     !.at = IF probe.CRAWL_MODE = 1
                                            THEN "collect_special" ELSE "stream_special"]
                     ELSE [c0 EXCEPT !.last_page = info.last_page,
                                     !.start_page = start_page,
                                     !.page = start_page,
                                     !.at = IF probe.CRAWL_MODE = 1
                                            THEN "collect_general" ELSE "stream_general"]
    /\ UNCHANGED <<fs, dryRun, clock, pc, cur, listed, lastCalls>>

\* a collecting loop that returns without processing what it gathered
AfterCollectDropping(c) == [c EXCEPT !.at = "returned"]

\* the collecting loops are over: lines 308-309 and 353-354
AfterCollect(c) ==
    [c EXCEPT !.at = IF c.items_all = <<>> THEN "returned" ELSE "process_all"]

\* lines 290-306: one turn of the collecting loop of the special case
CollectSpecialPage ==
    /\ probe.fn = "crawl"
    /\ probe.at = "collect_special"
    /\ \E ok \in FetchOutcomes(probe.site, build_list_page_url(probe.page)) :
          LET c0 == Requested(probe, probe.page, ok)
              html == build_list_page_url(probe.page)
              c1 == Parsed([c0 EXCEPT !.items_all = @ \o Reverse(parse_list_page(html))],
                           probe.page)
              next_page == get_next_page_number(probe.site, html)
          IN probe' = IF ~ok THEN AfterCollect(c0)
                      ELSE IF next_page = 0 THEN AfterCollect(c1)
                      ELSE [c1 EXCEPT !.page = next_page]
    /\ UNCHANGED <<fs, dryRun, clock, pc, cur, listed, lastCalls>>

\* lines 231-247: one turn of collect_items_for_general_mode's loop
CollectGeneralPage ==
    /\ probe.fn = "crawl"
    /\ probe.at = "collect_general"
    /\ LET reuse == probe.page = 1 /\ probe.start_page = probe.last_page
           Onward(c) == IF c.page - 1 >= 1 THEN [c EXCEPT !.page = @ - 1]
                        ELSE AfterCollect(c)
           Taken(c, html) ==
               Parsed([c EXCEPT !.items_all = @ \o Reverse(parse_list_page(html))],
                      probe.page)
       IN IF reuse THEN probe' = Onward(Taken(probe, 1))
          ELSE \E ok \in FetchOutcomes(probe.site, build_list_page_url(probe.page)) :
                  LET c0 == Requested(probe, probe.page, ok)
                  IN probe' = IF ~ok THEN Onward(c0)
                              ELSE Onward(Taken(c0, build_list_page_url(probe.page)))
    /\ UNCHANGED <<fs, dryRun, clock, pc, cur, listed, lastCalls>>

\* the images of a work all meet the same fate in the runs considered
UniformOutcomes == { [i \in 1..2 |-> d] : d \in DownloadOutcomes }

\* a process_item call of crawl, followed by random_delay: the tree it
\* leaves and the frame with the call logged
CrawlProcess(c, item) ==
    \E story_found \in BOOLEAN, viewer_ok \in BOOLEAN, order \in ScanOrders(fs),
       outcome \in RenameOutcomes, outcomes \in UniformOutcomes :
       \E r \in { process_item(fs, item, story_found, viewer_ok, order, dryRun,
                               outcome, outcomes, "ok", TRUE, clock + 1) } :
          LET incomplete == /\ r.cur.decision = "continue"
                            /\ ~IsComplete(CompletionCount(r.fs, r.cur.save_dir),
                                           r.cur.expected_total)
              unmoved == \E i \in 1..Len(r.cur.renames) : r.cur.renames[i].ret = NoPath
          IN /\ fs' = r.fs
             /\ clock' = clock + 1
             /\ probe' = Log(c, [ev |-> "process", item |-> item,
                                 skipped |-> r.cur.skipped,
                                 decision |-> r.cur.decision,
                                 download_failed |-> incomplete,
                                 rename_failed |-> unmoved])

\* lines 309-311 and 354-356: the next collected item is processed
ProcessCollected ==
    /\ probe.fn = "crawl"
    /\ probe.at = "process_all"
    /\ LET rest == Tail(probe.items_all)
       IN CrawlProcess([probe EXCEPT !.items_all = rest,
                                     !.at = IF rest = <<>> THEN "returned" ELSE @],
                       Head(probe.items_all))
    /\ UNCHANGED <<dryRun, pc, cur, listed, lastCalls>>

\* a streaming loop that ends after its first page
FollowNextLinkNever(c) == [c EXCEPT !.at = "returned"]

\* lines 333-338: after a page's items, follow the page's next link
FollowNextLink(c) ==
    LET next_page == get_next_page_number(c.site, build_list_page_url(c.page))
    IN IF next_page = 0 THEN [c EXCEPT !.at = "returned"]
       ELSE [c EXCEPT !.page = next_page, !.at = "stream_special"]

\* lines 318-327: a page of the special case is fetched for streaming
StreamSpecialPage ==
    /\ probe.fn = "crawl"
    /\ probe.at = "stream_special"
    /\ \E ok \in FetchOutcomes(probe.site, build_list_page_url(probe.page)) :
          LET c0 == Requested(probe, probe.page, ok)
              items == Reverse(parse_list_page(build_list_page_url(probe.page)))
              c1 == Parsed([c0 EXCEPT !.items = items], probe.page)
          IN probe' = IF ~ok THEN [c0 EXCEPT !.at = "returned"]
                      ELSE IF items = <<>> THEN FollowNextLink(c1)
                      ELSE [c1 EXCEPT !.at = "stream_special_items"]
    /\ UNCHANGED <<fs, dryRun, clock, pc, cur, listed, lastCalls>>

\* lines 329-338: the next item of the page is processed
StreamSpecialItem ==
    /\ probe.fn = "crawl"
    /\ probe.at = "stream_special_items"
    /\ LET rest == Tail(probe.items)
           c == [probe EXCEPT !.items = rest]
       IN CrawlProcess(IF rest = <<>> THEN FollowNextLink(c) ELSE c, Head(probe.items))
    /\ UNCHANGED <<dryRun, pc, cur, listed, lastCalls>>

\* a descent that leaves out every other page
PageBeforeLast(c) ==
    IF c.page - 2 >= 1 THEN [c EXCEPT !.page = @ - 2, !.at = "stream_general"]
    ELSE [c EXCEPT !.at = "returned"]

\* line 360: the loop goes on to the page before, down to page 1
PageBefore(c) ==
    IF c.page - 1 >= 1 THEN [c EXCEPT !.page = @ - 1, !.at = "stream_general"]
    ELSE [c EXCEPT !.at = "returned"]

\* lines 360-373: a page of the general case is fetched for streaming
StreamGeneralPage ==
    /\ probe.fn = "crawl"
    /\ probe.at = "stream_general"
    /\ LET reuse == probe.page = 1 /\ probe.start_page = probe.last_page
           Taken(c, html) ==
               LET items == Reverse(parse_list_page(html))
                   c1 == Parsed([c EXCEPT !.items = items], probe.page)
               IN IF items = <<>> THEN PageBefore(c1)
                  ELSE [c1 EXCEPT !.at = "stream_general_items"]
       IN IF reuse THEN probe' = Taken(probe, 1)
          ELSE \E ok \in FetchOutcomes(probe.site, build_list_page_url(probe.page)) :
                  LET c0 == Requested(probe, probe.page, ok)
                  IN probe' = IF ~ok THEN PageBefore(c0)
                              ELSE Taken(c0, build_list_page_url(probe.page))
    /\ UNCHANGED <<fs, dryRun, clock, pc, cur, listed, lastCalls>>

\* lines 375-377: the next item of the page is processed
StreamGeneralItem ==
    /\ probe.fn = "crawl"
    /\ probe.at = "stream_general_items"
    /\ LET rest == Tail(probe.items)
           c == [probe EXCEPT !.items = rest]
       IN CrawlProcess(IF rest = <<>> THEN PageBefore(c) ELSE c, Head(probe.items))
    /\ UNCHANGED <<dryRun, pc, cur, listed, lastCalls>>

CrawlNext ==
    \/ CrawlFirstPage
    \/ CollectSpecialPage
    \/ CollectGeneralPage
    \/ ProcessCollected
    \/ StreamSpecialPage
    \/ StreamSpecialItem
    \/ StreamGeneralPage
    \/ StreamGeneralItem

SpecCrawl == CrawlInit /\ [][CrawlNext]_vars

\* what the log of a run says
Requests(c) == SelectSeq(c.log, LAMBDA e : e.ev = "request")

\* the pages taken into the traversal, in order
Visited(c) ==
    LET parses == SelectSeq(c.log, LAMBDA e : e.ev = "parse")
    IN [i \in 1..Len(parses) |-> parses[i].page]

\* the items handed to process_item, in order
Processed(c) ==
    LET calls == SelectSeq(c.log, LAMBDA e : e.ev = "process")
    IN [i \in 1..Len(calls) |-> calls[i].item]

\* the run of crawl is over
Returned == probe.fn = "crawl" /\ probe.at = "returned"

\* the run is past its first request, which succeeded
Underway == probe.fn = "crawl" /\ probe.at # "start" /\ probe.log[1].ok

\* the pages whose request inside a traversal loop failed
FailedPages(c) ==
    LET reqs == Requests(c)
    IN { reqs[i].page : i \in { j \in 2..Len(reqs) : ~reqs[j].ok } }

\* the start page of the bounded strategy
BoundedStart(c) == IF c.GLOBAL_PAGE > 0 THEN c.GLOBAL_PAGE ELSE c.site.last

\* C21: in bounded mode, in either processing order, the pages taken into
\* the traversal are in strictly descending order (so each at most once)
\* and lie between the start page (GLOBAL_PAGE if > 0, else the last page)
\* and page 1; a page is left out only if its fetch failed, and when the
\* run ends every page from the start page down to 1 was either visited or
\* failed to load.
C21_BoundedDescent ==
    (Underway /\ ~probe.is_special) =>
        LET v == Visited(probe)
            start == BoundedStart(probe)
        IN /\ \A i \in 1..Len(v), j \in 1..Len(v) : i < j => v[i] > v[j]
           /\ \A i \in 1..Len(v) : v[i] \in 1..start
           /\ \A p \in 1..start :
                 (Len(v) > 0 /\ p > v[Len(v)] /\ p \notin Range(v))
                    => p \in FailedPages(probe)
           /\ FailedPages(probe) \cap Range(v) = {}
           /\ Returned => Range(v) \cup FailedPages(probe) = 1..start

\* a streaming run from the last page has skipped the pages in between,
\* whose fetches failed, and has gone on to page 1
C21_Witness ==
    /\ Returned
    /\ ~probe.is_special
    /\ probe.CRAWL_MODE = 2
    /\ probe.GLOBAL_PAGE = 0
    /\ Visited(probe) = <<BoundedPages, 1>>
    /\ FailedPages(probe) = 2..(BoundedPages - 1)

\* the entries of the pages v, each page bottom to top, page after page
RECURSIVE ItemsOfPages(_)
ItemsOfPages(v) ==
    IF v = <<>> THEN <<>>
    ELSE Reverse(parse_list_page(Head(v))) \o ItemsOfPages(Tail(v))

\* the start page of the unbounded strategy
UnboundedStart(c) == IF c.GLOBAL_PAGE > 0 THEN c.GLOBAL_PAGE ELSE 1

\* C22: in unbounded mode the traversal starts at GLOBAL_PAGE (or page 1),
\* goes from each page to the page its next link names, processes every
\* item of every page visited, and, no fetch failing, ends exactly at the
\* first page without next link; on the site of pages 1..ChainPages
\* chained, started at page 1, exactly these pages are visited and the
\* items of the last page are processed before the run ends.
C22_UnboundedFollowsNextLinks ==
    (Underway /\ probe.is_special) =>
        LET v == Visited(probe)
            n == Len(v)
        IN /\ n > 0 => v[1] = UnboundedStart(probe)
           /\ \A i \in 1..(n - 1) : v[i + 1] = probe.site.next[v[i]]
           /\ Returned => Processed(probe) = ItemsOfPages(v)
           /\ (Returned /\ FailedPages(probe) = {}) =>
                 /\ n > 0
                 /\ probe.site.next[v[n]] = 0
           /\ (Returned /\ FailedPages(probe) = {} /\ probe.GLOBAL_PAGE = 0
               /\ probe.site.pages = ChainPages) =>
                 /\ v = [i \in 1..ChainPages |-> i]
                 /\ SubSeq(Processed(probe), 2 * ChainPages - 1, 2 * ChainPages)
                        = Reverse(parse_list_page(ChainPages))

\* a streaming run over the chained site has ended after the items of the
\* last page
C22_Witness ==
    /\ Returned
    /\ probe.is_special
    /\ probe.CRAWL_MODE = 2
    /\ probe.GLOBAL_PAGE = 0
    /\ probe.site.pages = ChainPages
    /\ FailedPages(probe) = {}
    /\ Len(Visited(probe)) = ChainPages
    /\ probe.log[Len(probe.log)].ev = "process"
    /\ probe.log[Len(probe.log)].item = Entry(ChainPages, 1)

\* the entries of the site as it lists them: page after page, top to bottom
RECURSIVE Listed(_)
Listed(n) == IF n = 0 THEN <<>> ELSE Listed(n - 1) \o parse_list_page(n)

\* the rank of an entry in the site's listing: the newest work has rank 1
Rank(item) ==
    LET all == Listed(ChainPages)
    IN CHOOSE i \in 1..Len(all) : all[i] = item

\* C23: in collect-then-process order, with either strategy, no page is
\* requested or parsed once an item has been processed, and the items are
\* processed oldest first: each processed item is newer than the ones
\* processed before it (pages list newest first, lower pages hold newer
\* works).
C23_CollectThenProcessOldestFirst ==
    (Underway /\ probe.CRAWL_MODE = 1) =>
        /\ \A i \in 1..Len(probe.log), j \in 1..Len(probe.log) :
              (i < j /\ probe.log[i].ev = "process") => probe.log[j].ev = "process"
        /\ LET done == Processed(probe)
           IN \A i \in 1..Len(done), j \in 1..Len(done) :
                 i < j => Rank(done[i]) > Rank(done[j])

\* the positions in the log of the list-page requests that failed inside a
\* traversal loop
FailedAt(c) ==
    { k \in 2..Len(c.log) : c.log[k].ev = "request" /\ ~c.log[k].ok }

\* the traversal went on to another page after position k of the log
WentOn(c, k) ==
    \E j \in (k + 1)..Len(c.log) : c.log[j].ev \in {"request", "parse"}

\* the failed page has pages after it in the direction of the traversal
HasFollowing(c, page) ==
    IF c.is_special THEN page < c.site.pages ELSE page > 1

\* C24 as stated: when a list-page fetch fails after the first page, a run
\* in collect-then-process order (bounded or unbounded) or in bounded
\* streaming goes on to the following pages; a run in unbounded streaming
\* requests no further page.
C24_FetchFailureFatalOnlyInUnboundedStreaming ==
    (Underway /\ Returned) =>
        \A k \in FailedAt(probe) :
            IF probe.is_special /\ probe.CRAWL_MODE = 2
            THEN ~WentOn(probe, k)
            ELSE HasFollowing(probe, probe.log[k].page) => WentOn(probe, k)

\* C24, amended: in the bounded strategy, in either processing order, the
\* run goes on to the pages below a page whose fetch failed.  In the
\* unbounded strategy a failed fetch ends the traversal in either order:
\* no further page is requested; in streaming order the run returns at
\* once, in collect-then-process order the items gathered before the
\* failure are still processed.
C24_FetchFailureFatalInUnbounded ==
    (Underway /\ Returned) =>
        \A k \in FailedAt(probe) :
            IF probe.is_special
            THEN /\ ~WentOn(probe, k)
                 /\ probe.CRAWL_MODE = 2 => k = Len(probe.log)
                 /\ probe.CRAWL_MODE = 1 =>
                       /\ Processed(probe) = ItemsOfPages(Visited(probe))
                       /\ Len(probe.log) = k + Len(Processed(probe))
            ELSE HasFollowing(probe, probe.log[k].page) => WentOn(probe, k)

\* an unbounded collecting run has gathered pages 1 and 2, failed to fetch
\* page 3, and has processed the four items it had
C24_Witness ==
    /\ Returned
    /\ probe.is_special
    /\ probe.CRAWL_MODE = 1
    /\ Visited(probe) = <<1, 2>>
    /\ FailedPages(probe) = {3}
    /\ Len(Processed(probe)) = 4

\* the pages from p on along the next-page links, at most n of them
RECURSIVE ChainFrom(_, _, _)
ChainFrom(site, p, n) ==
    IF n = 0 \/ p = 0 THEN <<>>
    ELSE IF p \notin 1..site.pages THEN <<p>>
    ELSE <<p>> \o ChainFrom(site, site.next[p], n - 1)

\* the pages the run sets out to traverse, in order
Traversal(c) ==
    IF c.is_special THEN ChainFrom(c.site, UnboundedStart(c), c.site.pages)
    ELSE [i \in 1..BoundedStart(c) |-> BoundedStart(c) + 1 - i]

\* the pages of the traversal that loaded
Loaded(c) == SelectSeq(Traversal(c), LAMBDA p : p \notin FailedPages(c))

\* the pages of the traversal before the first one that did not load
RECURSIVE UpToFailure(_, _)
UpToFailure(v, failed) ==
    IF v = <<>> \/ Head(v) \in failed THEN <<>>
    ELSE <<Head(v)>> \o UpToFailure(Tail(v), failed)

\* C25 as stated: when the first request fails the run ends with nothing
\* processed and the download root as it was; otherwise no failure stops
\* the run: when it ends, every item of every page of the traversal that
\* loaded has been processed, whatever failed before.
C25_OnlyFirstPageFailureStopsRun ==
    /\ (probe.fn = "crawl" /\ probe.at # "start" /\ ~probe.log[1].ok) =>
          /\ Returned
          /\ Len(probe.log) = 1
          /\ fs = probe.fs0
    /\ (Underway /\ Returned) => Processed(probe) = ItemsOfPages(Loaded(probe))

\* C25, amended: when the first request fails the run ends with nothing
\* processed and the download root as it was.  Otherwise a failure inside
\* process_item never stops the run, and neither does a failed page fetch
\* in the bounded strategy: all items of all pages that loaded are
\* processed.  In the unbounded strategy the pages up to the first failed
\* fetch are traversed and all their items are processed.
C25_ItemFailuresNeverStopRun ==
    /\ (probe.fn = "crawl" /\ probe.at # "start" /\ ~probe.log[1].ok) =>
          /\ Returned
          /\ Len(probe.log) = 1
          /\ fs = probe.fs0
    /\ (Underway /\ Returned) =>
          /\ Processed(probe) = ItemsOfPages(Visited(probe))
          /\ Visited(probe) =
                IF probe.is_special
                THEN UpToFailure(Traversal(probe), FailedPages(probe))
                ELSE Loaded(probe)

\* a bounded streaming run: the downloads of the work with two images
\* failed, the item after it was processed all the same, the run has ended
C25_Witness ==
    /\ Returned
    /\ ~probe.is_special
    /\ probe.CRAWL_MODE = 2
    /\ \E k \in 1..(Len(probe.log) - 1) :
          /\ probe.log[k].ev = "process"
          /\ probe.log[k].item = ItemA
          /\ probe.log[k].download_failed
          /\ probe.log[k + 1].ev = "process"
          /\ probe.log[k + 1].item = Entry(1, 1)

\* C26: a pass over an item without detail URL, without story-viewer link
\* on its detail page, or with expected total 0 (the viewer declares no
\* total and shows no image and no video) is skipped: it ends at once,
\* leaves the download root as it found it (no directory created), calls
\* no download function, no migration, and writes no metadata record; and
\* a pass that is not skipped has a detail URL and a positive expected
\* total.
C26_MalformedItemSkipped ==
    /\ (pc # "idle" /\ cur.item.detail_url = NoUrl) => cur.skipped = "no_detail_url"
    /\ (pc # "idle" /\ cur.skipped # "") =>
          /\ pc = "done"
          /\ cur.skipped \in {"no_detail_url", "no_story_url", "zero_total"}
          /\ fs = cur.fs0
          /\ cur.downloads = <<>>
          /\ cur.renames = <<>>
          /\ cur.meta_dir = NoPath
          /\ cur.save_dir = NoPath
    /\ InPass =>
          /\ cur.item.detail_url # NoUrl
          /\ cur.expected_total > 0

\* the viewer of a work whose legacy directory is on disk could not be
\* loaded: the pass was skipped and the directory is as it was
C26_Witness ==
    /\ pc = "done"
    /\ cur.skipped = "zero_total"
    /\ cur.item = ItemA
    /\ IsDir(fs, Path(BaseSub, LegacyName(ItemA)))
    /\ fs = cur.fs0

-----------------------------------------------------------------------------
(* The retry loops: utils.safe_request called on one URL, attempt after    *)
(* attempt, and utils.safe_download handing one file to the download       *)
(* collaborator.  probe holds the call: for safe_request its max_retries,  *)
(* the loop variable, the requests and delays so far in order, what the    *)
(* last request got, and the value returned; for safe_download the         *)
(* arguments it passes on.                                                 *)

\* the default of safe_request's max_retries, which every caller uses
DefaultMaxRetries == 50

\* the largest other value of max_retries tried
MaxRetries == 5

\* the max_retries safe_download passes to download_file
DownloadMaxRetries == -1

RetryArgs == (0..MaxRetries) \cup {DefaultMaxRetries}

\* what one session.get can do: answer 200, answer another status, raise
GetOutcomes == {"200", "status", "exception"}

RequestInit ==
    /\ fs = [q \in {} |-> EmptyDir]
    /\ dryRun = FALSE
    /\ clock = 0
    /\ pc = "idle"
    /\ cur = EmptyCur
    /\ listed = ItemA
    /\ lastCalls = <<>>
    /\ probe = NoProbe

\* line 48: the loop goes on while attempt <= max_retries; line 62-63
AfterAttempt(c) ==
    IF c.attempt > c.max_retries THEN [c EXCEPT !.at = "returned", !.ret = "None"]
    ELSE c

\* safe_request is called
CallSafeRequest ==
    /\ probe.fn = "none"
    /\ \E max_retries \in RetryArgs :
          probe' = AfterAttempt([fn |-> "safe_request", max_retries |-> max_retries,
                                 attempt |-> 1, at |-> "loop", ret |-> "",
                                 got |-> "", log |-> <<>>])
    /\ UNCHANGED <<fs, dryRun, clock, pc, cur, listed, lastCalls>>

\* lines 48-60: one turn of the loop
SafeRequestAttempt ==
    /\ probe.fn = "safe_request"
    /\ probe.at = "loop"
    /\ \E got \in GetOutcomes :
          LET c0 == Log([probe EXCEPT !.got = got], "request")
              c1 == IF probe.attempt < probe.max_retries THEN Log(c0, "delay") ELSE c0
          IN probe' = IF got = "200" THEN [c0 EXCEPT !.at = "returned", !.ret = "resp"]
                      ELSE AfterAttempt([c1 EXCEPT !.attempt = @ + 1])
    /\ UNCHANGED <<fs, dryRun, clock, pc, cur, listed, lastCalls>>

\* lines 277-292: safe_download imports download_file and calls it
CallSafeDownload ==
    /\ probe.fn = "none"
    /\ \E imported \in BOOLEAN, outcome \in DownloadOutcomes :
          LET save_dir == FreshDir(CanonicalName(listed))
          IN IF ~imported
             THEN /\ probe' = [fn |-> "safe_download", called |-> FALSE, max_retries |-> 0]
                  /\ fs' = fs
             ELSE /\ probe' = [fn |-> "safe_download", called |-> TRUE,
                               max_retries |-> DownloadMaxRetries]
                  /\ fs' = safe_download(fs, F1, save_dir, outcome)
    /\ UNCHANGED <<dryRun, clock, pc, cur, listed, lastCalls>>

RequestNext ==
    \/ CallSafeRequest
    \/ SafeRequestAttempt
    \/ CallSafeDownload

SpecRequest == RequestInit /\ [][RequestNext]_vars

\* the number of requests / delays of the call so far
Count(log, what) == Len(SelectSeq(log, LAMBDA e : e = what))

C28_MetaWrittenInEveryPass ==
    (pc = "done" /\ InPass) => cur.meta_dir # NoPath

\* C28, amended: a pass that reaches the working-directory decision writes
\* the metadata record exactly when it goes on to the download steps, once,
\* as its last step, into its working directory, with the item's hash and
\* the time of the pass; a pass that skips a complete work does not write
\* the record.
C28_MetaWrittenOncePerDownloadingPass ==
    /\ (InPass /\ pc # "done") => cur.meta_dir = NoPath
    /\ (pc = "done" /\ InPass) =>
          /\ cur.meta_dir # NoPath <=> cur.decision = "continue"
          /\ cur.meta_dir # NoPath =>
                /\ cur.meta_dir = cur.save_dir
                /\ IsDir(fs, cur.meta_dir)
                /\ META_JSON \in DOMAIN fs[cur.meta_dir]
                /\ fs[cur.meta_dir][META_JSON] = MetaFile(cur.hash8, clock)
          /\ cur.decision = "skip" =>
                \A p \in DOMAIN fs :
                   (META_JSON \in DOMAIN fs[p] /\ fs[p][META_JSON].time = clock)
                      => \E i \in 1..Len(cur.renames) :
                            /\ cur.renames[i].ret = p
                            /\ cur.renames[i].after # cur.renames[i].before

\* the second pass over a work went on downloading into the directory of
\* the first and has overwritten the record the first pass wrote
C28_Witness ==
    /\ pc = "done"
    /\ clock = 2
    /\ cur.decision = "continue"
    /\ cur.meta_dir = cur.save_dir
    /\ IsDir(cur.fs0, cur.save_dir)
    /\ META_JSON \in DOMAIN cur.fs0[cur.save_dir]
    /\ cur.fs0[cur.save_dir][META_JSON] = MetaFile(cur.hash8, 1)
    /\ fs[cur.meta_dir][META_JSON] = MetaFile(cur.hash8, 2)

\* the loops of the bounded and of the unbounded strategy
BoundedLoops == {"collect_general", "stream_general", "stream_general_items"}
UnboundedLoops == {"collect_special", "stream_special", "stream_special_items"}

\* C29: crawl takes the bounded, descending strategy exactly when the
\* first page carries a result count > 0 and a last-page number, and the
\* unbounded next-link strategy otherwise; in the unbounded strategy
\* parse_last_page_and_total returns no last page, and the traversal starts
\* at GLOBAL_PAGE or page 1 even when the first page has a last-page link.
C29_StrategySelection ==
    Underway =>
        LET both == probe.site.total > 0 /\ probe.site.last # 0
            first == IF Len(probe.log) >= 2 THEN probe.log[2].page ELSE 0
        IN /\ probe.is_special <=> ~both
           /\ both => /\ probe.at \notin UnboundedLoops
                      /\ probe.last_page = probe.site.last
                      /\ probe.start_page = BoundedStart(probe)
                      /\ first # 0 => first = BoundedStart(probe)
           /\ ~both => /\ probe.at \notin BoundedLoops
                       /\ probe.last_page = 0
                       /\ probe.start_page = 0
                       /\ first # 0 => first = UnboundedStart(probe)

\* the first page has a last-page link but no result count: the run
\* follows next links from page 1 and has just taken page 2
C29_Witness ==
    /\ Underway
    /\ probe.site.total = 0
    /\ probe.site.last = ChainPages
    /\ probe.GLOBAL_PAGE = 0
    /\ probe.is_special
    /\ Visited(probe) = <<1, 2>>

\* folder names to look up: the canonical and the legacy name of every work
\* with directories, the bystander's name, a name of one segment and a name
\* of five
LookupNames ==
    UNION { {CanonicalName(item), LegacyName(item), BystanderName(item)} :
            item \in WorkItems }
    \cup { <<"x">>, <<"a", SEP, "b", SEP, "c", SEP, "d", SEP, "e">> }

\* C30: on every tree, for every folder name and every scan order, when
\* find_existing_work_dir returns no directory match_old_format_dir
\* returns none either; so no pass enters the legacy-match branch of
\* step 6: old_dir is never set, rename_old_dir_to_new is never called
\* from there, the fresh directory of its failure path is never chosen,
\* and a pass that works in a legacy directory got it from
\* find_existing_work_dir.
C30_LegacyMatchBranchDead ==
    /\ pc = "idle" =>
          \A name \in LookupNames, order \in ScanOrders(fs) :
             find_existing_work_dir(fs, order, name) = NoPath
                => match_old_format_dir(fs, order, name) = NoPath
    /\ pc # "idle" =>
          /\ cur.old_dir = NoPath
          /\ \A i \in 1..Len(cur.renames) : cur.renames[i].phase # "early"
          /\ (InPass /\ LegacyNamed(BaseName(cur.chosen_dir), cur)) =>
                cur.chosen_dir = cur.existing_dir
          /\ (InPass /\ cur.existing_dir = NoPath) =>
                /\ cur.chosen_dir = FreshDir(cur.folder_name)
                /\ LegacyDirs(cur.fs0, cur) = {}

\* a pass has found the work's legacy directory through
\* find_existing_work_dir and works in it, no canonical directory existing
C30_Witness ==
    /\ InPass
    /\ cur.existing_dir # NoPath
    /\ LegacyNamed(BaseName(cur.existing_dir), cur)
    /\ cur.chosen_dir = cur.existing_dir
    /\ CanonicalDirs(cur.fs0, cur) = {}
    /\ \E order \in ScanOrders(cur.fs0) :
          match_old_format_dir(cur.fs0, order, cur.folder_name) = cur.existing_dir

\* C31: a pass over a playlist-format (m3u8) video item that skips the item
\* as complete found the final mp4 output file, non-empty, in its working
\* directory; hence after a pass that downloaded the playlist but could
\* not transcode it the item is still incomplete and the next pass goes
\* on with it.
C31_PlaylistSkippedOnlyWithMp4 ==
    ( /\ Decided
      /\ cur.story.video # NoVideo
      /\ ~cur.story.video.is_mp4
      /\ cur.decision = "skip" )
       => file_exists_and_nonempty(cur.fs0, cur.save_dir, cur.story.video.mp4_name)

-----------------------------------------------------------------------------
(* main.crawl in the special case on sites whose next-page links point     *)
(* anywhere: to a later page, to the page itself, to an earlier page, to a *)
(* page the site does not have, or nowhere.  The loops of lines 286-340    *)
(* keep no record of the pages they have requested, so the number of       *)
(* requests is capped here to keep the runs finite.                        *)

MaxFetches == 5
RevisitPages == 2

\* sites without result count and without "last" link, one for every way
\* the pages' next links can point
RevisitSites ==
    { [pages |-> RevisitPages, total |-> 0, last |-> 0, next |-> next] :
         next \in [1..RevisitPages -> 0..(RevisitPages + 1)] }

RevisitInit ==
    /\ fs = [q \in {} |-> EmptyDir]
    /\ dryRun = FALSE
    /\ clock = 0
    /\ pc = "idle"
    /\ cur = EmptyCur
    /\ listed = ItemA
    /\ lastCalls = <<>>
    /\ \E site \in RevisitSites, global_page \in {0, RevisitPages},
          crawl_mode \in CrawlModes :
          probe = [fn |-> "crawl", site |-> site, GLOBAL_PAGE |-> global_page,
                   CRAWL_MODE |-> crawl_mode, at |-> "start", is_special |-> FALSE,
                   last_page |-> 0, start_page |-> 0, page |-> 0, items |-> <<>>,
                   items_all |-> <<>>, log |-> <<>>, fs0 |-> fs]

\* the run has made fewer than MaxFetches requests so far
FetchAllowed == Len(SelectSeq(probe.log, LAMBDA e : e.ev = "request")) < MaxFetches

\* lines 290-306, while requests are allowed
RevisitCollectPage == FetchAllowed /\ CollectSpecialPage

\* lines 318-327, while requests are allowed
RevisitStreamPage == FetchAllowed /\ StreamSpecialPage

RevisitNext ==
    \/ CrawlFirstPage
    \/ RevisitCollectPage
    \/ ProcessCollected
    \/ RevisitStreamPage
    \/ StreamSpecialItem

SpecRevisit == RevisitInit /\ [][RevisitNext]_vars

\* the page numbers requested by the run, in order
RequestedPages(c) ==
    LET reqs == SelectSeq(c.log, LAMBDA e : e.ev = "request")
    IN [i \in 1..Len(reqs) |-> reqs[i].page]

\* C32: in unbounded mode a run of crawl requests no page number twice,
\* wherever the next-page links of the pages point (hence a run over a
\* site of finitely many pages makes finitely many requests and ends).
C32_NoPageFetchedTwice ==
    (probe.fn = "crawl" /\ probe.is_special) =>
        LET pages == RequestedPages(probe)
        IN \A i \in 1..Len(pages), j \in 1..Len(pages) :
              i # j => pages[i] # pages[j]

\* C33: at the end of a pass that made download calls, meta.json has been
\* written into the directory that holds the item's media: the working
\* directory when it is still there, else the destination a migration of
\* the pass really moved it to.  With RENAME_DRY_RUN set, a pass that
\* completes a legacy-named working directory creates no canonical-named
\* directory and leaves the set of the item's work directories as it was.
C33_MetaWrittenWhereTheMediaAre ==
    (pc = "done" /\ InPass /\ cur.downloads # <<>>) =>
        /\ cur.meta_dir # NoPath
        /\ IF IsDir(fs, cur.chosen_dir)
           THEN cur.meta_dir = cur.chosen_dir
           ELSE \E i \in 1..Len(cur.renames) :
                   /\ cur.renames[i].old_dir = cur.chosen_dir
                   /\ cur.renames[i].after # cur.renames[i].before
                   /\ cur.renames[i].ret = cur.meta_dir
        /\ ( /\ dryRun
             /\ cur.chosen_dir \in LegacyDirs(cur.fs0, cur)
             /\ IsDir(fs, cur.chosen_dir)
             /\ IsComplete(CompletionCount(fs, cur.chosen_dir), cur.expected_total) )
              => /\ CanonicalDirs(fs, cur) \subseteq CanonicalDirs(cur.fs0, cur)
                 /\ WorkDirs(fs, cur) = WorkDirs(cur.fs0, cur)

====
